---------------------------- MODULE Spec2Model ----------------------------
(***************************************************************************)
(* Language Mirror backend: the turn orchestrator (src/src/index.ts), its  *)
(* in-memory history store, and the Tutor Client's output extraction       *)
(* (services/gemini.ts: extractFirstJSONObject, JSON.parse, pick).          *)
(*                                                                         *)
(* Text is a sequence of characters.  A character is a one-character       *)
(* string, except for a few words that always occur whole and are kept as  *)
(* one element: the four field names, "text", "json", "null", and the two  *)
(* markdown fences (three backquotes, and three backquotes followed by     *)
(* json), written FENCE and FENCE_JSON.                                    *)
(***************************************************************************)
EXTENDS Naturals, Integers, Sequences, FiniteSets, TLC

VARIABLES
    historyStore,   \* index.ts:37  Map<string, HistMsg[]>: conversation id -> array reference
    heap,           \* the HistMsg[] arrays themselves, by reference
    req,            \* one record per HTTP request: handler position and locals
    arg,            \* argument of the pure function under check
    ret,            \* its result
    fpc,            \* "idle" (orchestrator runs), "call" or "done" (pure function runs)
    obs             \* history variable: what each request found when it arrived

vars == <<historyStore, heap, req, arg, ret, fpc, obs>>

-----------------------------------------------------------------------------
(* Characters *)

LB == "{"
RB == "}"
DQ == "\""
BS == "\\"
NL == "\n"
SP == " "
COLON == ":"
COMMA == ","
FENCE == "<fence>"
FENCE_JSON == "<fence>json"

\* JavaScript \s and String.prototype.trim, on the characters of the model
IsSpace(c) == c \in {SP, NL}

RECURSIVE trimStart(_)
trimStart(s) == IF s # <<>> /\ IsSpace(Head(s)) THEN trimStart(Tail(s)) ELSE s

RECURSIVE trimEnd(_)
trimEnd(s) ==
    IF s # <<>> /\ IsSpace(s[Len(s)]) THEN trimEnd(SubSeq(s, 1, Len(s) - 1)) ELSE s

trim(s) == trimEnd(trimStart(s))

\* s.lastIndexOf(c), 1-based
indexOf_last(s, c) ==
    IF \E i \in 1..Len(s) : s[i] = c
    THEN CHOOSE i \in 1..Len(s) : s[i] = c /\ \A j \in (i + 1)..Len(s) : s[j] # c
    ELSE 0

\* s.indexOf(c), 1-based; 0 when c does not occur (JavaScript: -1)
indexOf(s, c) ==
    IF \E i \in 1..Len(s) : s[i] = c
    THEN CHOOSE i \in 1..Len(s) : s[i] = c /\ \A j \in 1..(i - 1) : s[j] # c
    ELSE 0

\* .replace(/^FENCE_JSON\s*/i, "")
stripLeadingFence(s) ==
    IF s # <<>> /\ Head(s) = FENCE_JSON THEN trimStart(Tail(s)) ELSE s

\* .replace(/FENCE$/i, "")
stripTrailingFence(s) ==
    IF s # <<>> /\ s[Len(s)] = FENCE THEN SubSeq(s, 1, Len(s) - 1) ELSE s

\* gemini.ts:29
fenceStripped(s) == trim(stripTrailingFence(stripLeadingFence(trim(s))))

-----------------------------------------------------------------------------
(* extractFirstJSONObject, gemini.ts:28-66 *)

\* The for loop of lines 37-62 from index i on, and line 65 when it runs out.
RECURSIVE scanFrom(_, _, _, _, _, _)
scanFrom(text, start, i, depth, inString, escape) ==
    IF i > Len(text) THEN SubSeq(text, start, Len(text))
    ELSE LET ch == text[i] IN
         IF inString
         THEN IF escape THEN scanFrom(text, start, i + 1, depth, TRUE, FALSE)
              ELSE IF ch = BS THEN scanFrom(text, start, i + 1, depth, TRUE, TRUE)
              ELSE IF ch = DQ THEN scanFrom(text, start, i + 1, depth, FALSE, FALSE)
              ELSE scanFrom(text, start, i + 1, depth, TRUE, FALSE)
         ELSE IF ch = DQ THEN scanFrom(text, start, i + 1, depth, TRUE, escape)
              ELSE LET d1 == IF ch = LB THEN depth + 1 ELSE depth
                       d2 == IF ch = RB THEN d1 - 1 ELSE d1
                   IN  IF ch = RB /\ d2 = 0
                       THEN SubSeq(text, start, i)
                       ELSE scanFrom(text, start, i + 1, d2, FALSE, escape)

\* The values the variable depth of lines 37-62 holds at the end of each
\* iteration of the loop run from index i on.
RECURSIVE depthsFrom(_, _, _, _, _)
depthsFrom(text, i, depth, inString, escape) ==
    IF i > Len(text) THEN <<>>
    ELSE LET ch == text[i] IN
         IF inString
         THEN IF escape THEN <<depth>> \o depthsFrom(text, i + 1, depth, TRUE, FALSE)
              ELSE IF ch = BS THEN <<depth>> \o depthsFrom(text, i + 1, depth, TRUE, TRUE)
              ELSE IF ch = DQ THEN <<depth>> \o depthsFrom(text, i + 1, depth, FALSE, FALSE)
              ELSE <<depth>> \o depthsFrom(text, i + 1, depth, TRUE, FALSE)
         ELSE IF ch = DQ THEN <<depth>> \o depthsFrom(text, i + 1, depth, TRUE, escape)
              ELSE LET d1 == IF ch = LB THEN depth + 1 ELSE depth
                       d2 == IF ch = RB THEN d1 - 1 ELSE d1
                   IN  IF ch = RB /\ d2 = 0
                       THEN <<d2>>
                       ELSE <<d2>> \o depthsFrom(text, i + 1, d2, FALSE, escape)

\* the values of depth during extractFirstJSONObject(s): line 34, then the loop
depthsOf(s) ==
    IF indexOf(fenceStripped(s), LB) = 0 THEN <<>>
    ELSE <<0>> \o depthsFrom(fenceStripped(s), indexOf(fenceStripped(s), LB), 0, FALSE, FALSE)

extractFirstJSONObject(s) ==
    LET text == fenceStripped(s)
        start == indexOf(text, LB)
    IN  IF start = 0 THEN text
        ELSE scanFrom(text, start, start, 0, FALSE, FALSE)

-----------------------------------------------------------------------------
(* JavaScript values, as far as the program handles them *)

Undefined == [t |-> "undefined"]
Null == [t |-> "null"]
Str(s) == [t |-> "string", s |-> s]
\* an object: m maps each own property name (a text) to its value
Obj(m) == [t |-> "object", m |-> m]

IsString(v) == v.t = "string"
IsObject(v) == v.t = "object"

\* v[key] (v?.[key] for null and undefined)
Get(v, key) == IF IsObject(v) /\ key \in DOMAIN v.m THEN v.m[key] ELSE Undefined

\* m with property key set to v, as JSON.parse does for a later duplicate key too
Put(m, key, v) == [k \in (DOMAIN m) \cup {key} |-> IF k = key THEN v ELSE m[k]]

EmptyMap == [k \in {} |-> Undefined]

-----------------------------------------------------------------------------
(* JSON.parse (ECMA-404) on the characters of the model: objects, strings   *)
(* with the escapes \" \\ \n, and null.  A parse result is                   *)
(* [ok, v, i]: whether it parsed, the value, and the index after it.         *)
(* The texts given to it never hold a backslash right before a word kept as *)
(* one element, so an escape is decided by a single character.              *)

ParseFail == [ok |-> FALSE, v |-> Undefined, i |-> 0]

RECURSIVE skipWs(_, _)
skipWs(s, i) == IF i <= Len(s) /\ IsSpace(s[i]) THEN skipWs(s, i + 1) ELSE i

\* the characters of a string literal from index i (after the opening quote)
RECURSIVE parseStringBody(_, _, _)
parseStringBody(s, i, acc) ==
    IF i > Len(s) THEN ParseFail
    ELSE LET ch == s[i] IN
         IF ch = DQ THEN [ok |-> TRUE, v |-> Str(acc), i |-> i + 1]
         ELSE IF ch = BS
              THEN IF i + 1 > Len(s) THEN ParseFail
                   ELSE IF s[i + 1] = DQ THEN parseStringBody(s, i + 2, Append(acc, DQ))
                   ELSE IF s[i + 1] = BS THEN parseStringBody(s, i + 2, Append(acc, BS))
                   ELSE IF s[i + 1] = "n" THEN parseStringBody(s, i + 2, Append(acc, NL))
                   ELSE ParseFail
         ELSE IF ch = NL THEN ParseFail        \* a raw control character
         ELSE parseStringBody(s, i + 1, Append(acc, ch))

RECURSIVE parseValue(_, _)
RECURSIVE parseMembers(_, _, _)

\* members of an object from index i (at a member's key), m the members so far
parseMembers(s, i, m) ==
    IF i > Len(s) \/ s[i] # DQ THEN ParseFail
    ELSE LET k == parseStringBody(s, i + 1, <<>>) IN
         IF ~k.ok THEN ParseFail
         ELSE LET c == skipWs(s, k.i) IN
              IF c > Len(s) \/ s[c] # COLON THEN ParseFail
              ELSE LET v == parseValue(s, skipWs(s, c + 1)) IN
                   IF ~v.ok THEN ParseFail
                   ELSE LET e == skipWs(s, v.i)
                            m2 == Put(m, k.v.s, v.v)
                        IN  IF e > Len(s) THEN ParseFail
                            ELSE IF s[e] = RB
                                 THEN [ok |-> TRUE, v |-> Obj(m2), i |-> e + 1]
                            ELSE IF s[e] = COMMA
                                 THEN parseMembers(s, skipWs(s, e + 1), m2)
                            ELSE ParseFail

parseValue(s, i) ==
    IF i > Len(s) THEN ParseFail
    ELSE IF s[i] = DQ THEN parseStringBody(s, i + 1, <<>>)
    ELSE IF s[i] = "null" THEN [ok |-> TRUE, v |-> Null, i |-> i + 1]
    ELSE IF s[i] = LB
         THEN LET j == skipWs(s, i + 1) IN
              IF j <= Len(s) /\ s[j] = RB
              THEN [ok |-> TRUE, v |-> Obj(EmptyMap), i |-> j + 1]
              ELSE parseMembers(s, j, EmptyMap)
    ELSE ParseFail

\* JSON.parse(s): [ok |-> FALSE] stands for the SyntaxError it throws
JSONparse(s) ==
    LET r == parseValue(s, skipWs(s, 1)) IN
    IF r.ok /\ skipWs(s, r.i) > Len(s) THEN [ok |-> TRUE, v |-> r.v]
    ELSE [ok |-> FALSE, v |-> Undefined]

-----------------------------------------------------------------------------
(* geminiTutor, gemini.ts:68-206: from the HTTP response to the TutorOut *)

CORRECTED_USER == <<"corrected_user">>
TIPS_NATIVE == <<"tips_native">>
ASSISTANT_REPLY == <<"assistant_reply">>
FOLLOW_UP_QUESTION == <<"follow_up_question">>
TEXT == <<"text">>

\* gemini.ts:200  .slice(0, 800)
SnippetLen == 800

\* s.replace(/ab/g, r) for a two-character pattern ab and a one-character r
RECURSIVE replacePair(_, _, _, _)
replacePair(s, a, b, r) ==
    IF Len(s) < 2 THEN s
    ELSE IF s[1] = a /\ s[2] = b
         THEN <<r>> \o replacePair(SubSeq(s, 3, Len(s)), a, b, r)
         ELSE <<s[1]>> \o replacePair(Tail(s), a, b, r)

\* gemini.ts:188  m[1].replace(/\\"/g, '"').replace(/\\n/g, "\n")
unescapePicked(s) == replacePair(replacePair(s, BS, DQ, DQ), BS, "n", NL)

\* whether  "  \s* (,|})  matches at index e
closesAt(s, e) ==
    /\ e <= Len(s) /\ s[e] = DQ
    /\ LET d == skipWs(s, e + 1) IN d <= Len(s) /\ s[d] \in {COMMA, RB}

\* whether  "key" \s* : \s* "  matches at index i; the index of the value's
\* opening quote, or 0
valueQuoteAt(s, i, key) ==
    IF i + 2 <= Len(s) /\ s[i] = DQ /\ <<s[i + 1]>> = key /\ s[i + 2] = DQ
    THEN LET c == skipWs(s, i + 3) IN
         IF c <= Len(s) /\ s[c] = COLON
         THEN LET q == skipWs(s, c + 1) IN
              IF q <= Len(s) /\ s[q] = DQ THEN q ELSE 0
         ELSE 0
    ELSE 0

\* whether /"key"\s*:\s*"([\s\S]*?)"\s*(,|\})/ matches starting at index i
matchesAt(s, i, key) ==
    LET q == valueQuoteAt(s, i, key) IN
    q # 0 /\ \E e \in (q + 1)..Len(s) : closesAt(s, e)

\* gemini.ts:184-189  pick: the leftmost match, its lazy group 1, unescaped
pick(jsonStr, key) ==
    IF \E i \in 1..Len(jsonStr) : matchesAt(jsonStr, i, key)
    THEN LET i == CHOOSE i \in 1..Len(jsonStr) :
                      /\ matchesAt(jsonStr, i, key)
                      /\ \A j \in 1..(i - 1) : ~matchesAt(jsonStr, j, key)
             q == valueQuoteAt(jsonStr, i, key)
             e == CHOOSE e \in (q + 1)..Len(jsonStr) :
                      /\ closesAt(jsonStr, e)
                      /\ \A f \in (q + 1)..(e - 1) : ~closesAt(jsonStr, f)
         IN  unescapePicked(SubSeq(jsonStr, q + 1, e - 1))
    ELSE <<>>

\* a test that no text passes
startsWithBrace_never(t) == FALSE
\* t.trim().startsWith("{")
startsWithBrace(t) == LET u == trim(t) IN u # <<>> /\ Head(u) = LB

NoReturn == [found |-> FALSE, v |-> Undefined]
Return(v) == [found |-> TRUE, v |-> v]

\* gemini.ts:147-153 and 162-168: JSON.parse(v) when v is a string that starts
\* with "{" after trimming; ok = FALSE when it is not, or the parse throws
parseIfBraced(v) ==
    IF IsString(v) /\ startsWithBrace(v.s) THEN JSONparse(v.s)
    ELSE [ok |-> FALSE, v |-> Undefined]

\* gemini.ts:156-168  one key k of "json", "data", "structuredData": v = p[k]
tryKey(v, parsed) ==
    IF IsObject(v) THEN Return(v)
    ELSE IF parsed.ok THEN Return(parsed.v)
    ELSE NoReturn

\* gemini.ts:155-169  the loop over "json", "data", "structuredData" of part p
RECURSIVE tryKeys(_, _)
tryKeysFrom(p, ks, r) == IF r.found THEN r ELSE tryKeys(p, Tail(ks))
tryKeys(p, ks) ==
    IF ks = <<>> THEN NoReturn
    ELSE tryKeysFrom(p, ks, tryKey(Get(p, Head(ks)), parseIfBraced(Get(p, Head(ks)))))

\* gemini.ts:145-170  one iteration of the loop over the parts
tryText(p, parsed) ==
    IF parsed.ok THEN Return(parsed.v)
    ELSE tryKeys(p, << <<"json">>, <<"data">>, <<"structuredData">> >>)
tryPart(p) ==
    IF ~IsObject(p) THEN NoReturn ELSE tryText(p, parseIfBraced(Get(p, TEXT)))

\* gemini.ts:144-171
RECURSIVE partLoop(_, _)
partLoopFrom(parts, i, r) == IF r.found THEN r ELSE partLoop(parts, i + 1)
partLoop(parts, i) ==
    IF i > Len(parts) THEN NoReturn ELSE partLoopFrom(parts, i, tryPart(parts[i]))

\* gemini.ts:174-176
RECURSIVE joinTexts(_)
joinTexts(parts) ==
    IF parts = <<>> THEN <<>>
    ELSE LET t == Get(Head(parts), TEXT) IN
         (IF IsString(t) THEN t.s ELSE <<>>) \o joinTexts(Tail(parts))

\* gemini.ts:191-196
recoveredFrom(jsonStr) ==
    Obj([k \in {CORRECTED_USER, TIPS_NATIVE, ASSISTANT_REPLY, FOLLOW_UP_QUESTION} |->
            Str(pick(jsonStr, k))])

\* gemini.ts:199  !recovered.corrected_user && !recovered.tips_native && !recovered.assistant_reply
noPrimary(rec) ==
    /\ Get(rec, CORRECTED_USER).s = <<>>
    /\ Get(rec, TIPS_NATIVE).s = <<>>
    /\ Get(rec, ASSISTANT_REPLY).s = <<>>

Threw(stage, snippet) ==
    [threw |-> TRUE, value |-> Undefined, stage |-> stage, snippet |-> snippet]
Returned(v, stage) ==
    [threw |-> FALSE, value |-> v, stage |-> stage, snippet |-> <<>>]

slice0(s, n) == SubSeq(s, 1, IF Len(s) < n THEN Len(s) ELSE n)

\* gemini.ts:198-204  throw if no primary field was recovered, else return
recoverOrThrow(raw, jsonStr, recovered) ==
    IF noPrimary(recovered)
    THEN Threw("recover", slice0(IF jsonStr # <<>> THEN jsonStr ELSE raw, SnippetLen))
    ELSE Returned(recovered, "recover")

\* gemini.ts:181-205  strict = JSON.parse(jsonStr), or the catch block
parseOrRecover(raw, jsonStr, strict) ==
    IF strict.ok THEN Returned(strict.v, "extract")
    ELSE recoverOrThrow(raw, jsonStr, recoveredFrom(jsonStr))

\* gemini.ts:178-182
fromJsonStr(raw, jsonStr) == parseOrRecover(raw, jsonStr, JSONparse(jsonStr))

\* gemini.ts:174-178
fromRaw(raw) == fromJsonStr(raw, extractFirstJSONObject(raw))

\* gemini.ts:144-178  direct = what the loop over the parts returned, if it did
fromParts(parts, direct) ==
    IF direct.found THEN Returned(direct.v, "part") ELSE fromRaw(joinTexts(parts))

\* gemini.ts:136-205.  resp = [ok, parts]: the HTTP status is 2xx, and
\* data?.candidates?.[0]?.content?.parts ?? []
geminiTutor(resp) ==
    IF ~resp.ok THEN Threw("http", <<>>)
    ELSE fromParts(resp.parts, partLoop(resp.parts, 1))

-----------------------------------------------------------------------------
(* Inputs of the pure functions *)

\* longest text given to extractFirstJSONObject on its own
MaxLen == 5

ExtractAlphabet == {LB, RB, DQ, BS, SP, "x", FENCE}

TextsUpTo(n) == UNION {[1..k -> ExtractAlphabet] : k \in 0..n}

\* The remote model's answer, described by how each field is written:
\*   absent            the member is missing
\*   good, enc         "key":"enc", enc the JSON encoding of a string
\*   bare              "key":x      (an unquoted value: not JSON)
\*   open              "key":"x     (the closing quote is missing)
Absent == [kind |-> "absent", enc |-> <<>>]
Bare == [kind |-> "bare", enc |-> <<>>]
Open == [kind |-> "open", enc |-> <<>>]
Good(enc) == [kind |-> "good", enc |-> enc]

\* JSON encodings of: x, the empty string, x"x, ",x, "}, x<newline>x
GoodEncodings ==
    { <<"x">>, <<>>, <<"x", BS, DQ, "x">>, <<BS, DQ, COMMA, "x">>, <<BS, DQ, RB>>,
      <<"x", BS, "n", "x">> }

PrimaryForms == {Absent, Bare, Open} \cup {Good(e) : e \in GoodEncodings}
FollowUpForms == {Absent, Bare, Good(<<"x">>)}

FieldKeys == <<CORRECTED_USER, TIPS_NATIVE, ASSISTANT_REPLY, FOLLOW_UP_QUESTION>>
PrimaryKeys == {CORRECTED_USER, TIPS_NATIVE, ASSISTANT_REPLY}

\* the member "key":value of a field written in form f
memberText(key, f) ==
    <<DQ>> \o key \o <<DQ, COLON>> \o
    (IF f.kind = "good" THEN <<DQ>> \o f.enc \o <<DQ>>
     ELSE IF f.kind = "bare" THEN <<"x">>
     ELSE <<DQ, "x">>)

RECURSIVE joinMembers(_, _)
joinMembers(forms, i) ==
    IF i > Len(forms) THEN <<>>
    ELSE LET rest == joinMembers(forms, i + 1) IN
         IF forms[i].kind = "absent" THEN rest
         ELSE memberText(FieldKeys[i], forms[i]) \o
              (IF rest = <<>> THEN <<>> ELSE <<COMMA>> \o rest)

\* the object text the answer holds: { members, comma-separated }
candidateText(forms) == <<LB>> \o joinMembers(forms, 1) \o <<RB>>

TextPart(t) == Obj([k \in {TEXT} |-> Str(t)])

Shapes == {"text", "noise", "fenced", "split", "json", "null", "http"}

\* the HTTP response whose parts carry candidate text t in the given shape
responseOf(shape, t) ==
    [ok |-> shape # "http",
     parts |->
        CASE shape = "text" -> <<TextPart(t)>>
          [] shape = "noise" -> <<TextPart(<<"x", SP>> \o t \o <<SP, "x">>)>>
          [] shape = "fenced" -> <<TextPart(<<FENCE_JSON, NL>> \o t \o <<NL, FENCE>>)>>
          [] shape = "split" -> <<TextPart(<<"x">>), Null, TextPart(t)>>
          [] shape = "json" -> <<Obj([k \in {<<"json">>} |-> Str(t)])>>
          [] shape = "null" -> <<TextPart(<<"null">>)>>
          [] OTHER -> <<>>]

TutorInputs ==
    { [shape |-> sh, forms |-> <<cu, tn, ar, fq>>] :
        sh \in Shapes \ {"null", "http"},
        cu \in PrimaryForms, tn \in PrimaryForms, ar \in PrimaryForms,
        fq \in FollowUpForms }
    \cup { [shape |-> sh, forms |-> <<Absent, Absent, Absent, Absent>>] :
             sh \in {"null", "http"} }

-----------------------------------------------------------------------------
(* The turn orchestrator, index.ts *)

\* number of HTTP requests the server receives
MaxReq == 2

\* index.ts:73,168  hist.slice(-6)
HistoryWindow == 6

Reqs == 1..MaxReq

CONVERSATION_ID == <<"conversation_id">>
TARGET_LANGUAGE == <<"target_language">>
NATIVE_LANGUAGE == <<"native_language">>
PERSONA == <<"persona">>
USER_TEXT == <<"user_text">>
STT_LANGUAGE == <<"stt_language">>
SUBTITLE_TARGET == <<"subtitle_target">>
SUBTITLE_NATIVE == <<"subtitle_native">>
ASSISTANT_AUDIO_BASE64 == <<"assistant_audio_base64">>
ERROR == <<"error">>
DETAIL == <<"detail">>
OK == <<"ok">>

\* conversation ids a request can name or default to
DEMO == <<"demo">>
T1 == <<"t1">>
ConvIds == {DEMO, T1}

\* an object literal: the properties ks (a sequence of names) with values vs
RECURSIVE ObjectOf(_, _)
ObjectOf(ks, vs) ==
    IF ks = <<>> THEN EmptyMap
    ELSE Put(ObjectOf(Tail(ks), Tail(vs)), Head(ks), Head(vs))

\* a serializer that also drops the empty strings
jsonBody_truthy(m) ==
    Obj([k \in {x \in DOMAIN m : m[x] # Undefined /\ m[x] # Str(<<>>)} |-> m[k]])
\* JSON.stringify drops the properties whose value is undefined (c.json)
jsonBody(m) == Obj([k \in {x \in DOMAIN m : m[x] # Undefined} |-> m[k]])

\* zod: z.string().default(d), z.string().min(1), z.string().optional()
zOk(v) == [success |-> TRUE, data |-> v]
zFail == [success |-> FALSE, data |-> Undefined]
\* a string schema without the default
zStringDefault_required(v, d) == IF IsString(v) THEN zOk(v) ELSE zFail
zStringDefault(v, d) ==
    IF v = Undefined THEN zOk(Str(d)) ELSE IF IsString(v) THEN zOk(v) ELSE zFail
\* a string schema without the minimum length
zStringMin1_any(v) == IF IsString(v) THEN zOk(v) ELSE zFail
zStringMin1(v) == IF IsString(v) /\ Len(v.s) >= 1 THEN zOk(v) ELSE zFail
zStringOptional(v) == IF v = Undefined \/ IsString(v) THEN zOk(v) ELSE zFail

\* the parsed data when every field parsed; fs: name -> zod result
zObject(fs) ==
    IF \A k \in DOMAIN fs : fs[k].success
    THEN [success |-> TRUE, data |-> [k \in DOMAIN fs |-> fs[k].data]]
    ELSE [success |-> FALSE, data |-> EmptyMap]

\* index.ts:47-55
turnTextSchema(v) ==
    IF ~IsObject(v) THEN [success |-> FALSE, data |-> EmptyMap]
    ELSE zObject(
        ObjectOf(<<CONVERSATION_ID, TARGET_LANGUAGE, NATIVE_LANGUAGE, PERSONA, USER_TEXT>>,
                 << zStringDefault(Get(v, CONVERSATION_ID), DEMO),
                    zStringDefault(Get(v, TARGET_LANGUAGE), <<"ja">>),
                    zStringDefault(Get(v, NATIVE_LANGUAGE), <<"zh-TW">>),
                    zStringDefault(Get(v, PERSONA), <<"Osaka izakaya owner">>),
                    zStringMin1(Get(v, USER_TEXT)) >>))

\* index.ts:109-125
turnSchema(v) ==
    zObject(
        ObjectOf(<<CONVERSATION_ID, STT_LANGUAGE, TARGET_LANGUAGE, NATIVE_LANGUAGE, PERSONA,
                   SUBTITLE_TARGET>>,
                 << zStringDefault(Get(v, CONVERSATION_ID), DEMO),
                    zStringDefault(Get(v, STT_LANGUAGE), <<"ja-JP">>),
                    zStringDefault(Get(v, TARGET_LANGUAGE), <<"ja">>),
                    zStringDefault(Get(v, NATIVE_LANGUAGE), <<"zh-TW">>),
                    zStringDefault(Get(v, PERSONA), <<"Osaka izakaya owner">>),
                    zStringOptional(Get(v, SUBTITLE_TARGET)) >>))

\* a schema for /clear without the default
clearSchema_strict(v) ==
    IF ~IsObject(v) THEN [success |-> FALSE, data |-> EmptyMap]
    ELSE zObject(ObjectOf(<<CONVERSATION_ID>>,
                          << zStringDefault_required(Get(v, CONVERSATION_ID), DEMO) >>))
\* index.ts:198-199
clearSchema(v) ==
    IF ~IsObject(v) THEN [success |-> FALSE, data |-> EmptyMap]
    ELSE zObject(ObjectOf(<<CONVERSATION_ID>>,
                          << zStringDefault(Get(v, CONVERSATION_ID), DEMO) >>))

\* the array a conversation's preloaded history lives in (see InitLong)
BootRef == MaxReq + 1

Entry(role, text) == [role |-> role, text |-> text]

\* historyStore.get(k) ?? []  as a value
Stored(k) == IF k \in DOMAIN historyStore THEN heap[historyStore[k]] ELSE <<>>

StoreView == [k \in ConvIds |-> Stored(k)]

\* a.slice(0): the whole array, the window without its bound
sliceLast_whole(a, n) == a

\* a.slice(-n)
sliceLast(a, n) == SubSeq(a, IF Len(a) > n THEN Len(a) - n + 1 ELSE 1, Len(a))

\* a set that stores the array under every conversation id
mapSet_all(m, k, ref) == [x \in ConvIds |-> ref]
\* historyStore.set(k, ref) and historyStore.delete(k)
mapSet(m, k, ref) == [x \in (DOMAIN m) \cup {k} |-> IF x = k THEN ref ELSE m[x]]
\* a delete that leaves the entry in place
mapDelete_keep(m, k) == m
mapDelete(m, k) == [x \in (DOMAIN m) \ {k} |-> m[x]]

\* Buffer.toString("base64")
Base64Chars ==
    << "A","B","C","D","E","F","G","H","I","J","K","L","M","N","O","P",
       "Q","R","S","T","U","V","W","X","Y","Z","a","b","c","d","e","f",
       "g","h","i","j","k","l","m","n","o","p","q","r","s","t","u","v",
       "w","x","y","z","0","1","2","3","4","5","6","7","8","9","+","/" >>

\* the alphabet read from its other end
sextet_reversed(n) == Base64Chars[64 - n]
sextet(n) == Base64Chars[n + 1]

RECURSIVE base64(_)
base64(bytes) ==
    IF bytes = <<>> THEN <<>>
    ELSE IF Len(bytes) = 1
         THEN << sextet(bytes[1] \div 4), sextet((bytes[1] % 4) * 16), "=", "=" >>
    ELSE IF Len(bytes) = 2
         THEN << sextet(bytes[1] \div 4),
                 sextet((bytes[1] % 4) * 16 + bytes[2] \div 16),
                 sextet((bytes[2] % 16) * 4), "=" >>
    ELSE << sextet(bytes[1] \div 4),
            sextet((bytes[1] % 4) * 16 + bytes[2] \div 16),
            sextet((bytes[2] % 16) * 4 + bytes[3] \div 64),
            sextet(bytes[3] % 64) >> \o base64(SubSeq(bytes, 4, Len(bytes)))

\* a request before it arrives
NewRequest ==
    [pc |-> "new", kind |-> "none", input |-> Undefined, data |-> EmptyMap,
     user_text |-> Undefined, subtitle_native |-> Undefined, hist |-> 0,
     tutor |-> Undefined, calls |-> <<>>, status |-> 0, body |-> Undefined]

NewObs == [store0 |-> [k \in ConvIds |-> <<>>], alone |-> TRUE, afterClear |-> FALSE]

InFlight(q) == req[q].pc \notin {"new", "done"}
ConvOf(q) == req[q].data[CONVERSATION_ID].s

\* requests are numbered in the order they arrive
CanStart(r) == req[r].pc = "new" /\ (IF r = 1 THEN TRUE ELSE req[r - 1].pc # "new")

Call(svc, a) == [svc |-> svc, args |-> a]

\* a handler that computes its answer and never sends it
Respond_never(rec, status, body) ==
    [rec EXCEPT !.status = status, !.body = jsonBody(body)]
\* c.json(body, status)
Respond(rec, status, body) ==
    [rec EXCEPT !.pc = "done", !.status = status, !.body = jsonBody(body)]

\* an error handler that answers 200
onError_ok(rec, message) ==
    Respond(rec, 200, ObjectOf(<<ERROR, DETAIL>>,
                               <<Str(<<"Internal Server Error">>), Str(message)>>))
\* index.ts:24-33  app.onError
onError(rec, message) ==
    Respond(rec, 500, ObjectOf(<<ERROR, DETAIL>>,
                               <<Str(<<"Internal Server Error">>), Str(message)>>))

\* the same answer as a server error
badRequest_500(rec, what) == Respond(rec, 500, ObjectOf(<<ERROR>>, <<Str(what)>>))

\* index.ts:56  c.json({ error: parsed.error.format() }, 400)
badRequest(rec, what) == Respond(rec, 400, ObjectOf(<<ERROR>>, <<Str(what)>>))

-----------------------------------------------------------------------------
(* What the clients send and what the remote services answer *)

HELLO == <<"hello">>

\* the optional fields, all given (with conversation id t1) or all omitted
givenOptions ==
    ObjectOf(<<CONVERSATION_ID, TARGET_LANGUAGE, NATIVE_LANGUAGE, PERSONA, STT_LANGUAGE>>,
             <<Str(T1), Str(<<"it">>), Str(<<"en">>), Str(<<"tutor">>), Str(<<"it-IT">>)>>)

fieldsOf(named, k, v) ==
    LET base == IF named THEN givenOptions ELSE EmptyMap IN
    IF v = Undefined THEN base ELSE Put(base, k, v)

\* bodies of POST /turn_text and POST /clear: valid = the body is JSON
InvalidJson == [valid |-> FALSE, v |-> Undefined]
TextBodies ==
    { InvalidJson, [valid |-> TRUE, v |-> Null],
      [valid |-> TRUE, v |-> Obj(EmptyMap)],
      [valid |-> TRUE, v |-> Obj(fieldsOf(TRUE, USER_TEXT, Str(<<>>)))] } \cup
    { [valid |-> TRUE, v |-> Obj(fieldsOf(named, USER_TEXT, Str(HELLO)))] : named \in BOOLEAN }
ClearBodies ==
    {InvalidJson, [valid |-> TRUE, v |-> Null]} \cup
    { [valid |-> TRUE, v |-> Obj(fieldsOf(named, USER_TEXT, Undefined))] : named \in BOOLEAN }

\* multipart forms of POST /turn: the audio field (a File or not, its bytes)
\* and the text fields
NoFile == [file |-> FALSE, bytes |-> <<>>]
File(bytes) == [file |-> TRUE, bytes |-> bytes]
AudioForms ==
    { [audio |-> NoFile, v |-> Obj(EmptyMap)],
      [audio |-> File(<<>>), v |-> Obj(EmptyMap)],
      [audio |-> File(<<7>>), v |-> Obj(EmptyMap)],
      [audio |-> File(<<7>>), v |-> Obj(fieldsOf(TRUE, SUBTITLE_TARGET, Str(<<"zh-TW">>)))] }

\* answers of the remote model: all four fields; null; text from which no
\* field can be recovered; an HTTP error
FullAnswer ==
    candidateText(<<Good(<<"x">>), Good(<<"x">>), Good(<<"x", BS, "n", "x">>), Good(<<"x">>)>>)
BrokenAnswer == candidateText(<<Bare, Absent, Absent, Absent>>)
TutorResponses ==
    { responseOf("text", FullAnswer), responseOf("null", <<>>),
      responseOf("text", BrokenAnswer), responseOf("http", <<>>) }

\* a remote call throws (ok = FALSE) or returns
NormResults == { [ok |-> FALSE, bytes |-> <<>>], [ok |-> TRUE, bytes |-> <<>>],
                 [ok |-> TRUE, bytes |-> <<8>>] }
SttResults == { [ok |-> FALSE, text |-> <<>>], [ok |-> TRUE, text |-> <<>>],
                [ok |-> TRUE, text |-> HELLO] }
TranslateResults == { [ok |-> FALSE, text |-> <<>>], [ok |-> TRUE, text |-> <<"subtitle">>] }
SynthResults == { [ok |-> FALSE, bytes |-> <<>>], [ok |-> TRUE, bytes |-> <<1, 2>>] }

-----------------------------------------------------------------------------
(* History variable *)

\* request r arrives naming conversation k; isTurn: a turn, not a clear
obsArrive(r, k, isTurn) ==
    LET others == {q \in Reqs \ {r} : InFlight(q) /\ ConvOf(q) = k} IN
    [turn |-> [q \in Reqs |->
                 IF q = r
                 THEN [store0 |-> StoreView, alone |-> others = {},
                       afterClear |-> isTurn /\ k \in obs.cleared]
                 ELSE IF q \in others THEN [obs.turn[q] EXCEPT !.alone = FALSE]
                 ELSE obs.turn[q]],
     cleared |-> IF isTurn THEN obs.cleared \ {k}
                 ELSE IF others = {} THEN obs.cleared \cup {k}
                 ELSE obs.cleared \ {k}]

\* request r is answered before its conversation id is known
obsRejected(r) ==
    [obs EXCEPT !.turn[r] = [store0 |-> StoreView, alone |-> TRUE, afterClear |-> FALSE]]

-----------------------------------------------------------------------------
(* Handlers: one action per stretch of code between two awaits *)

\* a tutor call that sends the persona as the utterance
callTutor_persona(rec, r) ==
    LET k == rec.data[CONVERSATION_ID].s
        ref == IF k \in DOMAIN historyStore THEN historyStore[k] ELSE r
    IN  [rec EXCEPT
            !.pc = "awaitTutor",
            !.hist = ref,
            !.calls = Append(@, Call("tutor",
                [targetLanguage |-> rec.data[TARGET_LANGUAGE],
                 nativeLanguage |-> rec.data[NATIVE_LANGUAGE],
                 persona |-> rec.data[PERSONA],
                 userText |-> rec.data[PERSONA],
                 history |-> sliceLast(heap[ref], HistoryWindow)]))]

\* index.ts:63-74 and 159-169: read the history, call the Tutor Client
callTutor(rec, r) ==
    LET k == rec.data[CONVERSATION_ID].s
        ref == IF k \in DOMAIN historyStore THEN historyStore[k] ELSE r
    IN  [rec EXCEPT
            !.pc = "awaitTutor",
            !.hist = ref,
            !.calls = Append(@, Call("tutor",
                [targetLanguage |-> rec.data[TARGET_LANGUAGE],
                 nativeLanguage |-> rec.data[NATIVE_LANGUAGE],
                 persona |-> rec.data[PERSONA],
                 userText |-> rec.user_text,
                 history |-> sliceLast(heap[ref], HistoryWindow)]))]

\* index.ts:44-74  POST /turn_text up to the Tutor Client call
TurnText(r, body) ==
    /\ CanStart(r)
    /\ LET rec == [req[r] EXCEPT !.kind = "turn_text", !.input = body]
           parsed == turnTextSchema(body.v)
       IN  IF ~body.valid
           THEN /\ req' = [req EXCEPT ![r] = onError(rec, <<"SyntaxError">>)]
                /\ obs' = obsRejected(r)
           ELSE IF ~parsed.success
           THEN /\ req' = [req EXCEPT ![r] = badRequest(rec, <<"ZodError">>)]
                /\ obs' = obsRejected(r)
           ELSE /\ req' = [req EXCEPT ![r] =
                             callTutor([rec EXCEPT !.data = parsed.data,
                                                   !.user_text = parsed.data[USER_TEXT]], r)]
                /\ obs' = obsArrive(r, parsed.data[CONVERSATION_ID].s, TRUE)
    /\ UNCHANGED <<historyStore, heap, arg, ret, fpc>>

\* a handler that synthesizes before it appends
appendAndSpeak_speakFirst(r, tutor, reply, pushed1) ==
    /\ req' = [req EXCEPT ![r] =
                 [@ EXCEPT !.pc = "awaitSynth",
                           !.tutor = tutor,
                           !.calls = Append(@, Call("synth", [text |-> reply]))]]
    /\ UNCHANGED <<historyStore, heap>>

\* a handler that puts the assistant entry at the front of the array
appendAndSpeak_front(r, tutor, reply, pushed1) ==
    IF tutor \in {Null, Undefined}
    THEN /\ heap' = [heap EXCEPT ![req[r].hist] = pushed1]
         /\ req' = [req EXCEPT ![r] = onError([@ EXCEPT !.tutor = tutor], <<"TypeError">>)]
         /\ UNCHANGED historyStore
    ELSE /\ heap' = [heap EXCEPT ![req[r].hist] = <<Entry("assistant", reply)>> \o pushed1]
         /\ historyStore' = mapSet(historyStore, ConvOf(r), req[r].hist)
         /\ req' = [req EXCEPT ![r] =
                      [@ EXCEPT !.pc = "awaitSynth",
                                !.tutor = tutor,
                                !.calls = Append(@, Call("synth", [text |-> reply]))]]

\* index.ts:76-85 and 171-181: the Tutor Client returned tutor: append the
\* user entry and the assistant entry, store, call the synthesizer
appendAndSpeak(r, tutor, reply, pushed1) ==
    IF tutor \in {Null, Undefined}
    THEN \* tutor.assistant_reply: TypeError, after the first push
         /\ heap' = [heap EXCEPT ![req[r].hist] = pushed1]
         /\ req' = [req EXCEPT ![r] = onError([@ EXCEPT !.tutor = tutor], <<"TypeError">>)]
         /\ UNCHANGED historyStore
    ELSE /\ heap' = [heap EXCEPT ![req[r].hist] = Append(pushed1, Entry("assistant", reply))]
         /\ historyStore' = mapSet(historyStore, ConvOf(r), req[r].hist)
         /\ req' = [req EXCEPT ![r] =
                      [@ EXCEPT !.pc = "awaitSynth",
                                !.tutor = tutor,
                                !.calls = Append(@, Call("synth", [text |-> reply]))]]

\* a handler that stores the user entry before it knows the tutor's outcome
afterTutor_appendFirst(r, out) ==
    IF out.threw
    THEN /\ req' = [req EXCEPT ![r] = onError(@, <<"JSON parse failed">>)]
         /\ heap' = [heap EXCEPT ![req[r].hist] = Append(@, Entry("user", req[r].user_text))]
         /\ historyStore' = mapSet(historyStore, ConvOf(r), req[r].hist)
    ELSE appendAndSpeak(r, out.value, Get(out.value, ASSISTANT_REPLY),
                        Append(heap[req[r].hist], Entry("user", req[r].user_text)))

\* index.ts:65-78 and 160-173: out = what geminiTutor threw or returned
afterTutor(r, out) ==
    IF out.threw
    THEN /\ req' = [req EXCEPT ![r] = onError(@,
                       IF out.stage = "http" THEN <<"Gemini error">>
                       ELSE <<"JSON parse failed">>)]
         /\ UNCHANGED <<historyStore, heap>>
    ELSE appendAndSpeak(r, out.value, Get(out.value, ASSISTANT_REPLY),
                        Append(heap[req[r].hist], Entry("user", req[r].user_text)))

\* index.ts:65-85 and 160-181: the Tutor Client answers; append; call the synthesizer
TutorReturns(r, resp) ==
    /\ req[r].pc = "awaitTutor"
    /\ afterTutor(r, geminiTutor(resp))
    /\ UNCHANGED <<arg, ret, fpc, obs>>

\* index.ts:80-94 and 176-192: the synthesizer answers; respond
SynthReturns(r, audio) ==
    /\ req[r].pc = "awaitSynth"
    /\ LET rec == req[r]
           tutor == rec.tutor
           fq == Get(tutor, FOLLOW_UP_QUESTION)
           common ==
               ObjectOf(<<CONVERSATION_ID, <<"corrected_user">>, <<"tips_native">>,
                          <<"assistant_reply">>, <<"follow_up_question">>,
                          ASSISTANT_AUDIO_BASE64>>,
                        << rec.data[CONVERSATION_ID],
                           Get(tutor, CORRECTED_USER),
                           Get(tutor, TIPS_NATIVE),
                           Get(tutor, ASSISTANT_REPLY),
                           IF fq \in {Null, Undefined} THEN Str(<<>>) ELSE fq,
                           Str(base64(audio.bytes)) >>)
           full == IF rec.kind = "turn"
                   THEN Put(Put(common, USER_TEXT, rec.user_text),
                            SUBTITLE_NATIVE, rec.subtitle_native)
                   ELSE common
       IN  req' = [req EXCEPT ![r] =
                     IF audio.ok THEN Respond(rec, 200, full)
                     ELSE onError(rec, <<"ElevenLabs error">>)]
    /\ UNCHANGED <<historyStore, heap, arg, ret, fpc, obs>>

\* index.ts:196-204  POST /clear
Clear(r, body) ==
    /\ CanStart(r)
    /\ LET rec == [req[r] EXCEPT !.kind = "clear", !.input = body]
           parsed == clearSchema(IF body.valid THEN body.v ELSE Obj(EmptyMap))
           k == parsed.data[CONVERSATION_ID].s
       IN  IF ~parsed.success
           THEN /\ req' = [req EXCEPT ![r] = badRequest(rec, <<"ZodError">>)]
                /\ obs' = obsRejected(r)
                /\ UNCHANGED historyStore
           ELSE /\ historyStore' = mapDelete(historyStore, k)
                /\ req' = [req EXCEPT ![r] =
                             Respond([rec EXCEPT !.data = parsed.data], 200,
                                     ObjectOf(<<OK>>, <<[t |-> "boolean", b |-> TRUE]>>))]
                /\ obs' = obsArrive(r, k, FALSE)
    /\ UNCHANGED <<heap, arg, ret, fpc>>

\* index.ts:39  GET /health
Health(r) ==
    /\ CanStart(r)
    /\ req' = [req EXCEPT ![r] =
                 Respond([@ EXCEPT !.kind = "health"], 200,
                         ObjectOf(<<OK>>, <<[t |-> "boolean", b |-> TRUE]>>))]
    /\ obs' = obsRejected(r)
    /\ UNCHANGED <<historyStore, heap, arg, ret, fpc>>

\* index.ts:101-139  POST /turn up to the Audio Normalizer call
TurnAudio(r, form) ==
    /\ CanStart(r)
    /\ LET rec == [req[r] EXCEPT !.kind = "turn", !.input = form]
           parsed == turnSchema(form.v)
       IN  IF ~form.audio.file
           THEN /\ req' = [req EXCEPT ![r] = badRequest(rec, <<"Missing audio file field: audio">>)]
                /\ obs' = obsRejected(r)
           ELSE IF ~parsed.success
           THEN /\ req' = [req EXCEPT ![r] = badRequest(rec, <<"ZodError">>)]
                /\ obs' = obsRejected(r)
           ELSE IF Len(form.audio.bytes) = 0
           THEN /\ req' = [req EXCEPT ![r] =
                             badRequest([rec EXCEPT !.data = parsed.data],
                                        <<"Empty audio upload (0 bytes)">>)]
                /\ obs' = obsRejected(r)
           ELSE /\ req' = [req EXCEPT ![r] =
                             [rec EXCEPT !.pc = "awaitNorm",
                                         !.data = parsed.data,
                                         !.calls = Append(@, Call("normalizer",
                                                       [bytes |-> form.audio.bytes]))]]
                /\ obs' = obsArrive(r, parsed.data[CONVERSATION_ID].s, TRUE)
    /\ UNCHANGED <<historyStore, heap, arg, ret, fpc>>

\* a check that lets every output pass
emptyOutput_never(bytes) == FALSE
\* index.ts:141  !wavBytes || wavBytes.length === 0
emptyOutput(bytes) == Len(bytes) = 0

\* index.ts:139-150  the normalizer answers; call the recognizer
NormReturns(r, wav) ==
    /\ req[r].pc = "awaitNorm"
    /\ LET rec == req[r] IN
       req' = [req EXCEPT ![r] =
                 IF ~wav.ok THEN onError(rec, <<"ffmpeg failed">>)
                 ELSE IF emptyOutput(wav.bytes)
                 THEN Respond(rec, 500,
                              ObjectOf(<<ERROR>>, <<Str(<<"Audio conversion produced empty output">>)>>))
                 ELSE [rec EXCEPT !.pc = "awaitStt",
                                  !.calls = Append(@, Call("recognizer",
                                                [audioBytes |-> wav.bytes,
                                                 languageCode |-> rec.data[STT_LANGUAGE],
                                                 sampleRateHertz |-> 16000]))]]
    /\ UNCHANGED <<historyStore, heap, arg, ret, fpc, obs>>

\* a test that every value passes
truthy_always(v) == TRUE
\* index.ts:153  subtitle_target ? ... : "" : a string is truthy unless empty
truthy(v) == IsString(v) /\ v.s # <<>>

\* index.ts:146-169  the recognizer answers; call the translator if a subtitle
\* target was given, else the Tutor Client
SttReturns(r, stt) ==
    /\ req[r].pc = "awaitStt"
    /\ LET rec == req[r]
           sub == rec.data[SUBTITLE_TARGET]
           heard == [rec EXCEPT !.user_text = Str(stt.text)]
       IN  req' = [req EXCEPT ![r] =
                 IF ~stt.ok THEN onError(rec, <<"recognize failed">>)
                 ELSE IF truthy(sub)
                 THEN [heard EXCEPT !.pc = "awaitTranslate",
                                    !.calls = Append(@, Call("translator",
                                                  [text |-> Str(stt.text), target |-> sub]))]
                 ELSE callTutor([heard EXCEPT !.subtitle_native = Str(<<>>)], r)]
    /\ UNCHANGED <<historyStore, heap, arg, ret, fpc, obs>>

\* index.ts:153-169  the translator answers; call the Tutor Client
TranslateReturns(r, tr) ==
    /\ req[r].pc = "awaitTranslate"
    /\ LET rec == req[r] IN
       req' = [req EXCEPT ![r] =
                 IF ~tr.ok THEN onError(rec, <<"translate failed">>)
                 ELSE callTutor([rec EXCEPT !.subtitle_native = Str(tr.text)], r)]
    /\ UNCHANGED <<historyStore, heap, arg, ret, fpc, obs>>

-----------------------------------------------------------------------------
(* The server *)

EmptyStore == [k \in {} |-> 0]

\* index.ts:37: the store is empty when the process starts
Init ==
    /\ historyStore = EmptyStore
    /\ heap = [h \in 1..BootRef |-> <<>>]
    /\ req = [r \in Reqs |-> NewRequest]
    /\ obs = [turn |-> [r \in Reqs |-> NewObs], cleared |-> {}]
    /\ arg = <<>>
    /\ ret = <<>>
    /\ fpc = "idle"

Next ==
    \/ \E r \in Reqs, body \in TextBodies : TurnText(r, body)
    \/ \E r \in Reqs, form \in AudioForms : TurnAudio(r, form)
    \/ \E r \in Reqs, wav \in NormResults : NormReturns(r, wav)
    \/ \E r \in Reqs, stt \in SttResults : SttReturns(r, stt)
    \/ \E r \in Reqs, tr \in TranslateResults : TranslateReturns(r, tr)
    \/ \E r \in Reqs, resp \in TutorResponses : TutorReturns(r, resp)
    \/ \E r \in Reqs, audio \in SynthResults : SynthReturns(r, audio)
    \/ \E r \in Reqs, body \in ClearBodies : Clear(r, body)
    \/ \E r \in Reqs : Health(r)

Spec == Init /\ [][Next]_vars

\* the remote call request r awaits settles, and the handler runs on to its
\* next await or to its answer
Returns(r) ==
    \/ \E wav \in NormResults : NormReturns(r, wav)
    \/ \E stt \in SttResults : SttReturns(r, stt)
    \/ \E tr \in TranslateResults : TranslateReturns(r, tr)
    \/ \E resp \in TutorResponses : TutorReturns(r, resp)
    \/ \E audio \in SynthResults : SynthReturns(r, audio)

\* every remote call eventually returns or fails, and the event loop then
\* resumes the handler that awaits it
Fairness == \A r \in Reqs : WF_vars(Returns(r))

SpecLive == Init /\ [][Next]_vars /\ Fairness

\* A server that has run for a while: conversation t1 holds the six entries
\* of three successful turns, in the array BootRef.
LongHistory ==
    << Entry("user", Str(<<"one">>)), Entry("assistant", Str(<<"uno">>)),
       Entry("user", Str(<<"two">>)), Entry("assistant", Str(<<"due">>)),
       Entry("user", Str(<<"three">>)), Entry("assistant", Str(<<"tre">>)) >>

InitLong ==
    /\ historyStore = [k \in {T1} |-> BootRef]
    /\ heap = [h \in 1..BootRef |-> IF h = BootRef THEN LongHistory ELSE <<>>]
    /\ req = [r \in Reqs |-> NewRequest]
    /\ obs = [turn |-> [r \in Reqs |-> NewObs], cleared |-> {}]
    /\ arg = <<>>
    /\ ret = <<>>
    /\ fpc = "idle"

SpecLong == InitLong /\ [][Next]_vars

-----------------------------------------------------------------------------
(* The pure functions on their own: extractFirstJSONObject on every text up *)
(* to MaxLen, geminiTutor and pick on every answer of TutorInputs.          *)

ServerIdle ==
    /\ historyStore = EmptyStore
    /\ heap = [h \in 1..BootRef |-> <<>>]
    /\ req = [r \in Reqs |-> NewRequest]
    /\ obs = [turn |-> [r \in Reqs |-> NewObs], cleared |-> {}]

InitExtract ==
    /\ ServerIdle
    /\ arg \in TextsUpTo(MaxLen)
    /\ ret = <<>>
    /\ fpc = "call"

ExtractCall ==
    /\ fpc = "call"
    /\ ret' = extractFirstJSONObject(arg)
    /\ fpc' = "returned"
    /\ UNCHANGED <<historyStore, heap, req, obs, arg>>

SpecExtract == InitExtract /\ [][ExtractCall]_vars

InitTutor ==
    /\ ServerIdle
    /\ arg \in TutorInputs
    /\ ret = <<>>
    /\ fpc = "call"

\* geminiTutor on the response that carries the answer
TutorCall ==
    /\ fpc = "call"
    /\ ret' = geminiTutor(responseOf(arg.shape, candidateText(arg.forms)))
    /\ fpc' = "returned"
    /\ UNCHANGED <<historyStore, heap, req, obs, arg>>

\* pick, for each of the four fields, on the answer's object text
PickCall ==
    /\ fpc = "call"
    /\ ret' = [i \in 1..4 |-> pick(candidateText(arg.forms), FieldKeys[i])]
    /\ fpc' = "picked"
    /\ UNCHANGED <<historyStore, heap, req, obs, arg>>

NextTutor == TutorCall \/ PickCall

SpecTutor == InitTutor /\ [][NextTutor]_vars

\* geminiTutor on every list of up to MaxParts response parts: text parts that
\* parse, that start with a brace but do not parse, that are noise, that are
\* noise followed by an object; a null part; parts that carry a structured object or object text under json, data
\* or structuredData
MaxParts == 3

AnswerA == candidateText(<<Good(<<"x">>), Absent, Absent, Absent>>)
AnswerB == candidateText(<<Absent, Good(<<"x">>), Absent, Absent>>)
HalfAnswer == candidateText(<<Bare, Absent, Good(<<"x">>), Absent>>)

PartChoices ==
    { TextPart(AnswerA),
      TextPart(<<SP>> \o AnswerB),
      TextPart(HalfAnswer),
      TextPart(<<"x">>),
      TextPart(<<"x", SP>> \o AnswerA),
      Null,
      Obj([k \in {<<"json">>} |-> Obj([f \in {ASSISTANT_REPLY} |-> Str(<<"x">>)])]),
      Obj([k \in {<<"data">>} |-> Str(AnswerB)]),
      Obj([k \in {TEXT, <<"structuredData">>} |->
              IF k = TEXT THEN Str(HalfAnswer)
              ELSE Obj([f \in {FOLLOW_UP_QUESTION} |-> Str(<<"x">>)])]) }

PartLists == UNION {[1..n -> PartChoices] : n \in 0..MaxParts}

InitParts ==
    /\ ServerIdle
    /\ arg \in PartLists
    /\ ret = <<>>
    /\ fpc = "call"

PartsCall ==
    /\ fpc = "call"
    /\ ret' = geminiTutor([ok |-> TRUE, parts |-> arg])
    /\ fpc' = "returned"
    /\ UNCHANGED <<historyStore, heap, req, arg, obs>>

SpecParts == InitParts /\ [][PartsCall]_vars

-----------------------------------------------------------------------------
(* Claims about the Tutor Client *)

PrimaryIndex == {1, 2, 3}

\* the object text geminiTutor extracts from the response of the answer in arg
ExtractedText == extractFirstJSONObject(joinTexts(responseOf(arg.shape, candidateText(arg.forms)).parts))

\* a TutorOut: an object whose four fields are present and are strings
IsTutorOut(v) ==
    /\ IsObject(v)
    /\ \A i \in 1..4 : FieldKeys[i] \in DOMAIN v.m /\ IsString(v.m[FieldKeys[i]])

\* C4: whenever the Tutor Client returns without raising, the value it returns
\* is a record in which corrected_user, tips_native, assistant_reply and
\* follow_up_question are all present and are text.
C4_ReturnsTutorOut ==
    (fpc = "returned" /\ ~ret.threw) => IsTutorOut(ret.value)

\* a primary field is recoverable: pick finds a non-empty value for it
Recoverable(i) == pick(ExtractedText, FieldKeys[i]) # <<>>

\* C5, first sentence: once strict parsing has failed, the Tutor Client raises
\* exactly when no primary field is recovered non-empty, and otherwise returns
\* the recovered fields, empty strings for the others.
RecoveryDecides ==
    (fpc = "returned" /\ ret.stage = "recover") =>
        /\ ret.threw <=> (\A i \in PrimaryIndex : ~Recoverable(i))
        /\ ~ret.threw =>
              /\ IsTutorOut(ret.value)
              /\ \A i \in 1..4 : ret.value.m[FieldKeys[i]].s = pick(ExtractedText, FieldKeys[i])

\* C5: the first sentence, and more generally: for every answer the remote
\* model gives as text, the Tutor Client raises when no primary field is
\* recoverable and returns without raising when at least one is.
C5_RaisesIffNothingRecoverable ==
    /\ RecoveryDecides
    /\ (fpc = "returned" /\ arg.shape \notin {"http", "json"}) =>
          (ret.threw <=> (\A i \in PrimaryIndex : ~Recoverable(i)))

\* the string a JSON string literal with the characters enc between its quotes denotes
Decoded(enc) == JSONparse(<<DQ>> \o enc \o <<DQ>>).v.s

\* C7: in a candidate text where a field is a well-formed JSON string member
\* and some other field is malformed, pick returns exactly that field's decoded
\* value, also when the value holds escaped quotes (even right before a comma
\* or a closing brace) or escaped newlines.
C7_PickDecodesField ==
    (fpc = "picked" /\ \E j \in 1..4 : arg.forms[j].kind \in {"bare", "open"}) =>
        \A i \in 1..4 :
            arg.forms[i].kind = "good" => ret[i] = Decoded(arg.forms[i].enc)

\* C7 without the values whose escaped quote stands right before a comma or a
\* closing brace: there pick does decode the field.
EndsAtEscapedQuote(enc) ==
    \E n \in 1..(Len(enc) - 2) :
        enc[n] = BS /\ enc[n + 1] = DQ /\ enc[n + 2] \in {COMMA, RB}
PickDecodesOtherValues ==
    (fpc = "picked" /\ \E j \in 1..4 : arg.forms[j].kind \in {"bare", "open"}) =>
        \A i \in 1..4 :
            (arg.forms[i].kind = "good" /\ ~EndsAtEscapedQuote(arg.forms[i].enc))
                => ret[i] = Decoded(arg.forms[i].enc)

-----------------------------------------------------------------------------
(* Claims about extractFirstJSONObject *)

\* brace depth, and whether inside a quoted string or after a backslash in
\* one, after reading u[1..i]
RECURSIVE lexAfter(_, _)
lexStep(p, ch) ==
    IF p.str
    THEN IF p.esc THEN [p EXCEPT !.esc = FALSE]
         ELSE IF ch = BS THEN [p EXCEPT !.esc = TRUE]
         ELSE IF ch = DQ THEN [p EXCEPT !.str = FALSE]
         ELSE p
    ELSE IF ch = DQ THEN [p EXCEPT !.str = TRUE]
         ELSE IF ch = LB THEN [p EXCEPT !.d = @ + 1]
         ELSE IF ch = RB THEN [p EXCEPT !.d = @ - 1]
         ELSE p
lexAfter(u, i) ==
    IF i = 0 THEN [d |-> 0, str |-> FALSE, esc |-> FALSE]
    ELSE lexStep(lexAfter(u, i - 1), u[i])

\* u is one balanced object: it opens with a brace, and its last character is
\* the first to close it
IsBalancedObject(u) ==
    /\ Len(u) >= 2
    /\ u[1] = LB
    /\ lexAfter(u, Len(u)).d = 0
    /\ ~lexAfter(u, Len(u)).str
    /\ \A i \in 1..(Len(u) - 1) : lexAfter(u, i).d > 0

ObjectsIn(t) ==
    { o \in (1..Len(t)) \X (1..Len(t)) : o[1] < o[2] /\ IsBalancedObject(SubSeq(t, o[1], o[2])) }

\* the balanced objects of t that lie in no other one
TopLevelObjects(t) ==
    { o \in ObjectsIn(t) :
        ~\E o2 \in ObjectsIn(t) : o2 # o /\ o2[1] <= o[1] /\ o[2] <= o2[2] }

\* C6: given a text that contains exactly one balanced top-level object, with
\* noise before or after it, extractFirstJSONObject returns exactly that
\* object's substring.
C6_ExtractsTheObject ==
    (fpc = "returned" /\ Cardinality(TopLevelObjects(arg)) = 1) =>
        \A o \in TopLevelObjects(arg) : ret = SubSeq(arg, o[1], o[2])

\* C6 when no opening brace precedes the object: then the object is returned
ExtractsWhenFirstBrace ==
    (fpc = "returned" /\ Cardinality(TopLevelObjects(arg)) = 1) =>
        \A o \in TopLevelObjects(arg) :
            (\A i \in 1..(o[1] - 1) : arg[i] # LB) => ret = SubSeq(arg, o[1], o[2])

-----------------------------------------------------------------------------
(* Claims about the History Store and the turns *)

IsTurn(rec) == rec.kind \in {"turn_text", "turn"}

\* request r is answered in this step
Completes(r) == req[r].pc # "done" /\ req'[r].pc = "done"

\* the conversations the answered request r may have touched: the one it
\* names, or any when it was answered before its fields were read
ConvsOf(r) ==
    IF CONVERSATION_ID \in DOMAIN req'[r].data THEN {req'[r].data[CONVERSATION_ID].s}
    ELSE ConvIds

RolesOf(entries) == [i \in 1..Len(entries) |-> entries[i].role]

\* the entries stored for k when r is answered are those stored when it
\* arrived, and then one user entry and one assistant entry
GrewByPair(r, k) ==
    /\ Len(StoreView'[k]) = Len(obs'.turn[r].store0[k]) + 2
    /\ SubSeq(StoreView'[k], 1, Len(obs'.turn[r].store0[k])) = obs'.turn[r].store0[k]
    /\ RolesOf(SubSeq(StoreView'[k], Len(StoreView'[k]) - 1, Len(StoreView'[k])))
          = <<"user", "assistant">>

\* C1: a Text Turn or Audio Turn on conversation k with no other request on k
\* interleaved grows the entries stored for k by exactly two (a user entry,
\* then an assistant entry) when it answers 200, and leaves their number
\* unchanged when it fails at any stage.
C1_TurnAppendsPairOrNothing ==
    [][ \A r \in Reqs :
          (Completes(r) /\ IsTurn(req'[r]) /\ obs'.turn[r].alone) =>
              \A k \in ConvsOf(r) :
                  IF req'[r].status = 200 THEN GrewByPair(r, k)
                  ELSE Len(StoreView'[k]) = Len(obs'.turn[r].store0[k]) ]_vars

\* the failures after the Tutor Client has returned: the synthesizer fails, or
\* the value returned is null
LateFailure(r) ==
    \/ req[r].pc = "awaitSynth" /\ req'[r].status # 200
    \/ req[r].pc = "awaitTutor" /\ req'[r].tutor = Null

\* C1 without the late failures: these turns do append a pair or nothing
TurnAppendsUnlessLateFailure ==
    [][ \A r \in Reqs :
          (Completes(r) /\ IsTurn(req'[r]) /\ obs'.turn[r].alone /\ ~LateFailure(r)) =>
              \A k \in ConvsOf(r) :
                  IF req'[r].status = 200 THEN GrewByPair(r, k)
                  ELSE Len(StoreView'[k]) = Len(obs'.turn[r].store0[k]) ]_vars

\* the (user, assistant) pair of the answered turn r
PairOf(r) ==
    << Entry("user", req'[r].user_text),
       Entry("assistant", Get(req'[r].tutor, ASSISTANT_REPLY)) >>

\* entries i, i+1 of stored are the pair p
PairAt(stored, i, p) ==
    i >= 1 /\ i + 1 <= Len(stored) /\ <<stored[i], stored[i + 1]>> = p

\* only r and q have named conversation k so far
OnlyTheTwo(r, q, k) ==
    \A p \in Reqs \ {r, q} :
        req'[p].pc = "new" \/ CONVERSATION_ID \notin DOMAIN req'[p].data
                           \/ req'[p].data[CONVERSATION_ID].s # k

\* C2: when two concurrent turns on the same conversation id have both
\* answered 200, the sequence stored for that id holds both turns' (user,
\* assistant) pairs, each contiguous, neither lost nor overwritten.
C2_ConcurrentTurnsKeepBothPairs ==
    [][ \A r \in Reqs, q \in Reqs :
          ( /\ r # q
            /\ Completes(r) /\ req'[q].pc = "done"
            /\ IsTurn(req'[r]) /\ IsTurn(req'[q])
            /\ req'[r].status = 200 /\ req'[q].status = 200
            /\ ConvOf(r)' = ConvOf(q)'
            /\ ~obs'.turn[r].alone /\ ~obs'.turn[q].alone
            /\ OnlyTheTwo(r, q, ConvOf(r)') ) =>
              \E i \in 1..Len(Stored(ConvOf(r))'), j \in 1..Len(Stored(ConvOf(r))') :
                  /\ i + 1 < j
                  /\ \/ PairAt(Stored(ConvOf(r))', i, PairOf(r)) /\ PairAt(Stored(ConvOf(r))', j, PairOf(q))
                     \/ PairAt(Stored(ConvOf(r))', i, PairOf(q)) /\ PairAt(Stored(ConvOf(r))', j, PairOf(r)) ]_vars

\* request r calls the Tutor Client in this step
CallsTutor(r) ==
    /\ Len(req'[r].calls) = Len(req[r].calls) + 1
    /\ req'[r].calls[Len(req'[r].calls)].svc = "tutor"

\* the history argument of the call just made by r
WindowSent(r) == req'[r].calls[Len(req'[r].calls)].args.history

Min(a, b) == IF a <= b THEN a ELSE b

\* h is the last Len(h) entries of stored, in stored order
IsTail(h, stored) ==
    /\ Len(h) <= Len(stored)
    /\ \A i \in 1..Len(h) : h[i] = stored[Len(stored) - Len(h) + i]

\* C3: the history a turn passes to the Tutor Client is exactly the last
\* min(6, n) of the n entries stored for its conversation at the moment of the
\* read, in stored order: never more than 6 entries, none older than the 6
\* most recent.
C3_WindowIsLastSix ==
    [][ \A r \in Reqs :
          CallsTutor(r) =>
              /\ Len(WindowSent(r)) = Min(6, Len(Stored(ConvOf(r)')))
              /\ IsTail(WindowSent(r), Stored(ConvOf(r)')) ]_vars

\* a turn has read a conversation of eight entries and sent the last six
C3_Witness ==
    \E r \in Reqs :
        /\ req[r].pc = "awaitTutor"
        /\ Len(heap[req[r].hist]) = 8
        /\ Len(req[r].calls[Len(req[r].calls)].args.history) = 6
        /\ req[r].calls[Len(req[r].calls)].args.history[1] = LongHistory[3]

\* C8: after POST /clear for conversation k has completed with no turn on k in
\* flight, the next turn on k sends an empty history window to the Tutor
\* Client and, if it answers 200, leaves exactly 2 entries stored for k.
C8_ClearEmptiesHistory ==
    [][ \A r \in Reqs :
          (IsTurn(req'[r]) /\ obs'.turn[r].afterClear /\ obs'.turn[r].alone) =>
              /\ CallsTutor(r) => WindowSent(r) = <<>>
              /\ (Completes(r) /\ req'[r].status = 200) => Len(StoreView'[ConvOf(r)']) = 2 ]_vars

\* a conversation that held entries was cleared, and the next turn on it has
\* sent an empty window, answered 200 and left two entries
C8_Witness ==
    \E r \in Reqs, q \in Reqs :
        /\ req[q].kind = "clear" /\ req[q].status = 200
        /\ IsTurn(req[r]) /\ req[r].pc = "done" /\ req[r].status = 200
        /\ ConvOf(q) = ConvOf(r)
        /\ Len(obs.turn[q].store0[ConvOf(q)]) >= 2
        /\ obs.turn[r].afterClear /\ obs.turn[r].alone
        /\ \E c \in 1..Len(req[r].calls) :
              req[r].calls[c].svc = "tutor" /\ req[r].calls[c].args.history = <<>>
        /\ Len(Stored(ConvOf(r))) = 2

\* the value of a base64 digit
digitOf(ch) == CHOOSE n \in 0..63 : Base64Chars[n + 1] = ch

\* the bytes a base64 text stands for (RFC 4648)
RECURSIVE bytesOf(_)
bytesOf(text) ==
    IF Len(text) < 4 THEN <<>>
    ELSE LET b1 == digitOf(text[1]) * 4 + digitOf(text[2]) \div 16 IN
         IF text[3] = "=" THEN <<b1>>
         ELSE LET b2 == (digitOf(text[2]) % 16) * 16 + digitOf(text[3]) \div 4 IN
              IF text[4] = "=" THEN <<b1, b2>>
              ELSE <<b1, b2, (digitOf(text[3]) % 4) * 64 + digitOf(text[4])>>
                       \o bytesOf(SubSeq(text, 5, Len(text)))

\* the conversation id the client named, demo when it named none
NamedConversation(input) ==
    IF CONVERSATION_ID \in DOMAIN input.v.m THEN input.v.m[CONVERSATION_ID] ELSE Str(DEMO)

\* the answer of the Text Turn r to which the synthesizer returned audio
AnswersWith(r, audio) ==
    /\ DOMAIN req'[r].body.m =
          {CONVERSATION_ID, CORRECTED_USER, TIPS_NATIVE, ASSISTANT_REPLY, FOLLOW_UP_QUESTION,
           ASSISTANT_AUDIO_BASE64}
    /\ req'[r].body.m[CONVERSATION_ID] = NamedConversation(req'[r].input)
    /\ \A i \in 1..4 : req'[r].body.m[FieldKeys[i]] = req[r].tutor.m[FieldKeys[i]]
    /\ Len(req'[r].body.m[ASSISTANT_AUDIO_BASE64].s) = 4 * ((Len(audio.bytes) + 2) \div 3)
    /\ bytesOf(req'[r].body.m[ASSISTANT_AUDIO_BASE64].s) = audio.bytes

\* C9: a successful Text Turn on a conversation id with no stored history, with
\* tutor output T and synthesizer bytes B, returns the request's conversation
\* id, the four fields of T unchanged and the base64 encoding of B; the text
\* sent to the synthesizer is T.assistant_reply; afterwards the history stored
\* for the id is exactly (user, user_text), (assistant, T.assistant_reply).
C9_TextTurnEndToEnd ==
    [][ \A r \in Reqs, audio \in SynthResults :
          ( /\ SynthReturns(r, audio) /\ audio.ok
            /\ req[r].kind = "turn_text"
            /\ obs.turn[r].alone
            /\ obs.turn[r].store0[ConvOf(r)] = <<>> ) =>
              /\ req'[r].status = 200
              /\ AnswersWith(r, audio)
              /\ req[r].calls[Len(req[r].calls)] =
                    Call("synth", [text |-> req[r].tutor.m[ASSISTANT_REPLY]])
              /\ Stored(ConvOf(r))' =
                    << Entry("user", req[r].input.v.m[USER_TEXT]),
                       Entry("assistant", req[r].tutor.m[ASSISTANT_REPLY]) >> ]_vars

\* the scenario: hello on t1, the synthesizer returns the bytes 1, 2, the
\* answer carries AQI= and t1 holds the two entries
C9_Witness ==
    \E r \in Reqs :
        /\ req[r].kind = "turn_text" /\ req[r].pc = "done" /\ req[r].status = 200
        /\ obs.turn[r].alone /\ obs.turn[r].store0[T1] = <<>>
        /\ IsTutorOut(req[r].tutor)
        /\ req[r].body.m[CONVERSATION_ID] = Str(T1)
        /\ req[r].body.m[ASSISTANT_AUDIO_BASE64] = Str(<<"A", "Q", "I", "=">>)
        /\ Stored(T1) = << Entry("user", Str(HELLO)),
                           Entry("assistant", req[r].tutor.m[ASSISTANT_REPLY]) >>

\* request r arrives in this step as a POST /turn whose audio file is empty
EmptyUpload(r) ==
    /\ req[r].pc = "new" /\ req'[r].kind = "turn"
    /\ req'[r].input.audio.file /\ Len(req'[r].input.audio.bytes) = 0

\* C10: POST /turn whose audio field has 0 bytes answers 400; in that request
\* no remote service is invoked and no conversation history is read or changed.
C10_EmptyAudioRejected ==
    [][ \A r \in Reqs :
          EmptyUpload(r) =>
              /\ req'[r].pc = "done" /\ req'[r].status = 400
              /\ req'[r].calls = <<>>
              /\ req'[r].hist = 0
              /\ UNCHANGED <<historyStore, heap>> ]_vars

\* a 0-byte upload was answered 400 while a conversation held entries
C10_Witness ==
    \E r \in Reqs :
        /\ req[r].kind = "turn" /\ req[r].input.audio = File(<<>>)
        /\ req[r].pc = "done" /\ req[r].status = 400 /\ req[r].calls = <<>>
        /\ \E k \in ConvIds : Stored(k) # <<>>

-----------------------------------------------------------------------------
(* Claims about validation and failures *)

\* request r arrives in this step as a POST /turn_text whose JSON object has
\* no user_text or an empty one
NoUserText(r) ==
    /\ req[r].pc = "new" /\ req'[r].kind = "turn_text"
    /\ req'[r].input.valid /\ IsObject(req'[r].input.v)
    /\ Get(req'[r].input.v, USER_TEXT) \in {Undefined, Str(<<>>)}

NoCallTo(rec, svcs) == \A c \in 1..Len(rec.calls) : rec.calls[c].svc \notin svcs

\* C11: POST /turn_text with an empty or missing user_text answers 400; in that
\* request neither the Tutor Client nor the Speech Synthesizer is invoked and
\* the history of every conversation is unchanged.
C11_NoUserTextRejected ==
    [][ \A r \in Reqs :
          NoUserText(r) =>
              /\ req'[r].pc = "done" /\ req'[r].status = 400
              /\ NoCallTo(req'[r], {"tutor", "synth"})
              /\ StoreView' = StoreView
              /\ UNCHANGED <<historyStore, heap>> ]_vars

\* an empty user_text was answered 400 while a conversation held entries
C11_Witness ==
    \E r \in Reqs :
        /\ req[r].kind = "turn_text" /\ req[r].input.valid
        /\ Get(req[r].input.v, USER_TEXT) = Str(<<>>)
        /\ req[r].pc = "done" /\ req[r].status = 400
        /\ \E k \in ConvIds : Len(Stored(k)) >= 2

\* the stages of a turn in which the Tutor Client has not yet returned
BeforeTutor == {"new", "awaitNorm", "awaitStt", "awaitTranslate", "awaitTutor"}

\* request r, a turn, takes a step in which a remote call of it throws
RemoteCallFails(r) ==
    \/ \E wav \in NormResults : NormReturns(r, wav) /\ ~wav.ok
    \/ \E stt \in SttResults : SttReturns(r, stt) /\ ~stt.ok
    \/ \E tr \in TranslateResults : TranslateReturns(r, tr) /\ ~tr.ok
    \/ req[r].pc = "awaitTutor" /\ req'[r].pc = "done" /\ req'[r].tutor = Undefined

\* request r, a turn, takes a step before its Tutor Client call has returned
\* a value
StepBeforeTutorSuccess(r) ==
    /\ req'[r] # req[r]
    /\ IsTurn(req'[r])
    /\ req[r].pc \in BeforeTutor
    /\ req'[r].tutor = Undefined

\* C12: when a remote call of a turn fails before the Tutor Client has
\* succeeded (transcoder, recognizer, translator, or the tutor call, a
\* recovery failure included), the turn answers 500, and neither that step nor
\* any earlier step of the turn changes the stored history of any conversation.
C12_EarlyFailureLeavesHistory ==
    [][ \A r \in Reqs :
          /\ RemoteCallFails(r) =>
                /\ req'[r].pc = "done" /\ req'[r].status = 500
                /\ obs'.turn[r].alone =>
                      StoreView'[ConvOf(r)] = obs'.turn[r].store0[ConvOf(r)]
          /\ StepBeforeTutorSuccess(r) =>
                /\ StoreView' = StoreView
                /\ UNCHANGED <<historyStore, heap>> ]_vars

\* an Audio Turn on a conversation that holds entries has failed in the tutor
\* call with a recovery failure
C12_Witness ==
    \E r \in Reqs :
        /\ req[r].kind = "turn" /\ req[r].pc = "done" /\ req[r].status = 500
        /\ Len(req[r].calls) >= 3 /\ req[r].calls[Len(req[r].calls)].svc = "tutor"
        /\ req[r].body.m[DETAIL] = Str(<<"JSON parse failed">>)
        /\ Len(Stored(ConvOf(r))) >= 2

\* C13: in an Audio Turn the Translation Client is invoked only if a subtitle
\* target was supplied; when none is supplied the translation service is never
\* called and the subtitle_native of the response is the empty string.
C13_TranslateOnlyOnRequest ==
    \A r \in Reqs :
        req[r].kind = "turn" =>
            /\ ~NoCallTo(req[r], {"translator"}) =>
                  IsString(Get(req[r].input.v, SUBTITLE_TARGET))
            /\ Get(req[r].input.v, SUBTITLE_TARGET) = Undefined =>
                  /\ NoCallTo(req[r], {"translator"})
                  /\ req[r].pc # "awaitTranslate"
                  /\ (req[r].pc = "done" /\ req[r].status = 200) =>
                        req[r].body.m[SUBTITLE_NATIVE] = Str(<<>>)

\* an Audio Turn without a subtitle target has answered 200 with an empty
\* subtitle, and another with a target has called the translator
C13_Witness ==
    \E r \in Reqs, q \in Reqs :
        /\ req[r].kind = "turn" /\ Get(req[r].input.v, SUBTITLE_TARGET) = Undefined
        /\ req[r].pc = "done" /\ req[r].status = 200
        /\ req[r].body.m[SUBTITLE_NATIVE] = Str(<<>>)
        /\ req[q].kind = "turn" /\ ~NoCallTo(req[q], {"translator"})

Services == {"normalizer", "recognizer", "translator", "tutor", "synth"}

CallsTo(rec, svc) == {c \in 1..Len(rec.calls) : rec.calls[c].svc = svc}

\* request r, a turn, takes a step in which any remote call of it throws
AnyRemoteCallFails(r) ==
    \/ RemoteCallFails(r)
    \/ \E audio \in SynthResults : SynthReturns(r, audio) /\ ~audio.ok

\* the messages with which the call to a service fails
FailureMessages(svc) ==
    CASE svc = "normalizer" -> {<<"ffmpeg failed">>}
      [] svc = "recognizer" -> {<<"recognize failed">>}
      [] svc = "translator" -> {<<"translate failed">>}
      [] svc = "tutor" -> {<<"Gemini error">>, <<"JSON parse failed">>}
      [] svc = "synth" -> {<<"ElevenLabs error">>}

\* the answer of r is the 500 of the error handler for the failure of its
\* last call
ServerErrorOf(rec) ==
    /\ rec.pc = "done" /\ rec.status = 500
    /\ DOMAIN rec.body.m = {ERROR, DETAIL}
    /\ rec.body.m[ERROR] = Str(<<"Internal Server Error">>)
    /\ IsString(rec.body.m[DETAIL])
    /\ rec.body.m[DETAIL].s \in FailureMessages(rec.calls[Len(rec.calls)].svc)

\* C14: within one turn each remote service is invoked at most once; once a
\* remote call of the turn fails, no further remote service is invoked in that
\* turn and its response is a 500 carrying the label and the failure's
\* message, never a 200.
C14_NoRetryFailureIsFatal ==
    [][ \A r \in Reqs :
          /\ \A svc \in Services : Cardinality(CallsTo(req'[r], svc)) <= 1
          /\ AnyRemoteCallFails(r) =>
                /\ ServerErrorOf(req'[r])
                /\ req'[r].calls = req[r].calls
          /\ req[r].pc = "done" => req'[r] = req[r] ]_vars

\* a turn has called all five services once, and the last call failed
C14_Witness ==
    \E r \in Reqs :
        /\ \A svc \in Services : Cardinality(CallsTo(req[r], svc)) = 1
        /\ ServerErrorOf(req[r])
        /\ req[r].body.m[DETAIL] = Str(<<"ElevenLabs error">>)

-----------------------------------------------------------------------------
(* Claims about the order of the stages *)

ServiceNames(rec) == [c \in 1..Len(rec.calls) |-> rec.calls[c].svc]

IsPrefix(a, b) == Len(a) <= Len(b) /\ SubSeq(b, 1, Len(a)) = a

\* the call of rec to svc (there is at most one)
TheCall(rec, svc) == rec.calls[CHOOSE c \in CallsTo(rec, svc) : TRUE]

\* the service whose answer a request awaits
Awaited(pc) ==
    CASE pc = "awaitNorm" -> "normalizer"
      [] pc = "awaitStt" -> "recognizer"
      [] pc = "awaitTranslate" -> "translator"
      [] pc = "awaitTutor" -> "tutor"
      [] pc = "awaitSynth" -> "synth"

\* exactly one call is outstanding while a request waits, the last one made
OneOutstanding(rec) ==
    rec.pc \notin {"new", "done"} =>
        rec.calls # <<>> /\ rec.calls[Len(rec.calls)].svc = Awaited(rec.pc)

\* the history is read when, and only when, the Tutor Client is called
ReadWithTutorCall(rec) == rec.hist # 0 <=> CallsTo(rec, "tutor") # {}

\* in this step request r appends, and only after the Tutor Client returned;
\* with the synthesizer called, its conversation ends with the pair of r and
\* the text to synthesize is the assistant reply
AppendsAfterTutor(r) ==
    /\ (req'[r] # req[r] /\ StoreView' # StoreView) =>
          req[r].pc = "awaitTutor" /\ req'[r].tutor # Undefined
    /\ (CallsTo(req'[r], "synth") # {} /\ CallsTo(req[r], "synth") = {}) =>
          /\ req[r].pc = "awaitTutor"
          /\ Len(StoreView'[ConvOf(r)]) >= 2
          /\ SubSeq(StoreView'[ConvOf(r)], Len(StoreView'[ConvOf(r)]) - 1,
                    Len(StoreView'[ConvOf(r)]))
                = << Entry("user", req'[r].user_text),
                     Entry("assistant", req'[r].tutor.m[ASSISTANT_REPLY]) >>
          /\ TheCall(req'[r], "synth").args.text = req'[r].tutor.m[ASSISTANT_REPLY]

\* a 200 is answered only when the synthesizer has returned
RespondsAfterSynth(r) ==
    (Completes(r) /\ req'[r].status = 200) =>
        req[r].pc = "awaitSynth" /\ req'[r].calls = req[r].calls

\* the order of the remote calls of an Audio Turn
AudioOrder(rec) ==
    IF truthy(Get(rec.input.v, SUBTITLE_TARGET))
    THEN <<"normalizer", "recognizer", "translator", "tutor", "synth">>
    ELSE <<"normalizer", "recognizer", "tutor", "synth">>

\* C15: in every Audio Turn the stages occur in the order: validation and
\* non-empty-audio check, Audio Normalizer, empty-output check, Transcription
\* Client, Translation Client (if requested), history read and Tutor Client,
\* history append, Speech Synthesizer, response; each stage starts only after
\* the previous one has completed; the utterance given to the Tutor Client and
\* to the translator is the recognizer's text.
C15_AudioTurnOrder ==
    [][ \A r \in Reqs :
          req'[r].kind = "turn" =>
              /\ IsPrefix(ServiceNames(req'[r]), AudioOrder(req'[r]))
              /\ OneOutstanding(req'[r])
              /\ req'[r].calls # <<>> =>
                    /\ req'[r].input.audio.file /\ req'[r].input.audio.bytes # <<>>
                    /\ DOMAIN req'[r].data # {}
              /\ CallsTo(req'[r], "recognizer") # {} =>
                    TheCall(req'[r], "recognizer").args.audioBytes # <<>>
              /\ ReadWithTutorCall(req'[r])
              /\ AppendsAfterTutor(r)
              /\ RespondsAfterSynth(r)
              /\ \A stt \in SttResults :
                    (SttReturns(r, stt) /\ stt.ok) => req'[r].user_text = Str(stt.text)
              /\ req[r].pc \in {"awaitTranslate", "awaitTutor", "awaitSynth"} =>
                    req'[r].user_text = req[r].user_text
              /\ CallsTo(req'[r], "translator") # {} =>
                    TheCall(req'[r], "translator").args.text = req'[r].user_text
              /\ CallsTo(req'[r], "tutor") # {} =>
                    TheCall(req'[r], "tutor").args.userText = req'[r].user_text ]_vars

\* an Audio Turn with a subtitle target has gone through all five services,
\* heard hello and answered 200
C15_Witness ==
    \E r \in Reqs :
        /\ req[r].kind = "turn" /\ req[r].pc = "done" /\ req[r].status = 200
        /\ ServiceNames(req[r]) = <<"normalizer", "recognizer", "translator", "tutor", "synth">>
        /\ TheCall(req[r], "tutor").args.userText = Str(HELLO)
        /\ TheCall(req[r], "translator").args.text = Str(HELLO)

\* C16: in every Text Turn the stages occur in the order: validation and
\* defaulting, history window read, Tutor Client call, append of the user text
\* and the assistant reply, Speech Synthesizer call on the assistant reply,
\* response; the append never happens before the Tutor Client has returned
\* successfully and the synthesizer is never called before the append.
C16_TextTurnOrder ==
    [][ \A r \in Reqs :
          req'[r].kind = "turn_text" =>
              /\ IsPrefix(ServiceNames(req'[r]), <<"tutor", "synth">>)
              /\ OneOutstanding(req'[r])
              /\ req'[r].calls # <<>> =>
                    /\ turnTextSchema(req'[r].input.v).success
                    /\ req'[r].data = turnTextSchema(req'[r].input.v).data
                    /\ req'[r].user_text = req'[r].input.v.m[USER_TEXT]
                    /\ TheCall(req'[r], "tutor").args.userText = req'[r].user_text
              /\ ReadWithTutorCall(req'[r])
              /\ AppendsAfterTutor(r)
              /\ RespondsAfterSynth(r) ]_vars

\* a Text Turn has called the Tutor Client, then the synthesizer, and answered 200
C16_Witness ==
    \E r \in Reqs :
        /\ req[r].kind = "turn_text" /\ req[r].pc = "done" /\ req[r].status = 200
        /\ ServiceNames(req[r]) = <<"tutor", "synth">>
        /\ Len(Stored(ConvOf(r))) >= 2

\* C17: in an Audio Turn, if the Audio Normalizer fails or returns empty
\* output, the turn answers 500, the Transcription, Translation, Tutor and
\* Synthesizer clients are never invoked and no history is changed; an empty
\* output is a failure even when the decoder reported success.
C17_NormalizerFailureIsFatal ==
    [][ \A r \in Reqs, wav \in NormResults :
          (NormReturns(r, wav) /\ (~wav.ok \/ wav.bytes = <<>>)) =>
              /\ req'[r].pc = "done" /\ req'[r].status = 500
              /\ ServiceNames(req'[r]) = <<"normalizer">>
              /\ req'[r].hist = 0
              /\ StoreView' = StoreView
              /\ UNCHANGED <<historyStore, heap>> ]_vars

\* the normalizer returned no bytes without failing, and the turn answered
\* 500 while a conversation held entries
C17_Witness ==
    \E r \in Reqs :
        /\ req[r].kind = "turn" /\ req[r].pc = "done" /\ req[r].status = 500
        /\ ServiceNames(req[r]) = <<"normalizer">>
        /\ req[r].body.m[ERROR] = Str(<<"Audio conversion produced empty output">>)
        /\ \E k \in ConvIds : Len(Stored(k)) >= 2

-----------------------------------------------------------------------------
(* Claims about the defaults *)

OptionalFields ==
    {CONVERSATION_ID, TARGET_LANGUAGE, NATIVE_LANGUAGE, PERSONA, STT_LANGUAGE}

\* the documented default of each optional field
DefaultOf(k) ==
    CASE k = CONVERSATION_ID -> <<"demo">>
      [] k = TARGET_LANGUAGE -> <<"ja">>
      [] k = NATIVE_LANGUAGE -> <<"zh-TW">>
      [] k = PERSONA -> <<"Osaka izakaya owner">>
      [] k = STT_LANGUAGE -> <<"ja-JP">>

\* the value a request with fields v is processed with: the one it gives, or
\* the default
Effective(v, k) == IF Get(v, k) = Undefined THEN Str(DefaultOf(k)) ELSE Get(v, k)

\* an object that gives exactly the optional fields of some, and user_text
GivingOnly(some) ==
    Obj([k \in some \cup {USER_TEXT} |->
            IF k = USER_TEXT THEN Str(HELLO) ELSE givenOptions[k]])

\* whatever subset of the optional fields a request gives, the schemas accept
\* it and fill in the defaults
SchemasDefault ==
    /\ \A some \in SUBSET (OptionalFields \ {STT_LANGUAGE}) :
          /\ turnTextSchema(GivingOnly(some)).success
          /\ \A k \in OptionalFields \ {STT_LANGUAGE} :
                turnTextSchema(GivingOnly(some)).data[k] = Effective(GivingOnly(some), k)
    /\ \A some \in SUBSET OptionalFields :
          /\ turnSchema(GivingOnly(some)).success
          /\ \A k \in OptionalFields :
                turnSchema(GivingOnly(some)).data[k] = Effective(GivingOnly(some), k)
    /\ \A some \in SUBSET {CONVERSATION_ID} :
          /\ clearSchema(GivingOnly(some)).success
          /\ clearSchema(GivingOnly(some)).data[CONVERSATION_ID]
                = Effective(GivingOnly(some), CONVERSATION_ID)

\* request r arrives in this step with what its operation requires: a
\* non-empty user_text (Text Turn), a non-empty audio file (Audio Turn), a
\* JSON object or a body that is not JSON (clear)
ArrivesValid(r) ==
    /\ req[r].pc = "new" /\ req'[r].pc # "new"
    /\ CASE req'[r].kind = "turn_text" ->
                /\ req'[r].input.valid
                /\ IsString(Get(req'[r].input.v, USER_TEXT))
                /\ Get(req'[r].input.v, USER_TEXT) # Str(<<>>)
         [] req'[r].kind = "turn" ->
                req'[r].input.audio.file /\ req'[r].input.audio.bytes # <<>>
         [] req'[r].kind = "clear" ->
                ~req'[r].input.valid \/ IsObject(req'[r].input.v)
         [] OTHER -> FALSE

\* the fields of the request, none when its body is not JSON
FieldsOf(rec) == IF rec.kind = "turn" \/ rec.input.valid THEN rec.input.v ELSE Obj(EmptyMap)

\* the remote calls of rec carry the effective values of its fields
CallsUseEffective(rec) ==
    /\ CallsTo(rec, "recognizer") # {} =>
          TheCall(rec, "recognizer").args.languageCode = Effective(FieldsOf(rec), STT_LANGUAGE)
    /\ CallsTo(rec, "tutor") # {} =>
          /\ TheCall(rec, "tutor").args.targetLanguage = Effective(FieldsOf(rec), TARGET_LANGUAGE)
          /\ TheCall(rec, "tutor").args.nativeLanguage = Effective(FieldsOf(rec), NATIVE_LANGUAGE)
          /\ TheCall(rec, "tutor").args.persona = Effective(FieldsOf(rec), PERSONA)

\* request r, which named no conversation, reads and changes only demo
ActsOnDemo(r) ==
    /\ CallsTutor(r) =>
          /\ Len(WindowSent(r)) = Min(6, Len(Stored(DEMO)))
          /\ IsTail(WindowSent(r), Stored(DEMO))
    /\ req'[r] # req[r] =>
          \A k \in ConvIds \ {DEMO} : StoreView'[k] = StoreView[k]
    /\ (req[r].pc = "awaitTutor" /\ req'[r].pc = "awaitSynth") =>
          Len(StoreView'[DEMO]) >= 2
    /\ (req'[r].kind = "clear" /\ req[r].pc = "new") =>
          req'[r].status = 200 /\ StoreView'[DEMO] = <<>>

\* C18: a turn request that omits any subset of the optional fields is not
\* rejected: it is processed with the defaults conversation_id demo,
\* target_language ja, native_language zh-TW, persona Osaka izakaya owner,
\* stt_language ja-JP; every turn and every clear that omits the conversation
\* id reads and mutates the single conversation demo.
C18_DefaultsApplied ==
    [][ /\ SchemasDefault
        /\ \A r \in Reqs :
              /\ ArrivesValid(r) =>
                    /\ req'[r].status # 400
                    /\ req'[r].data[CONVERSATION_ID]
                          = Effective(FieldsOf(req'[r]), CONVERSATION_ID)
              /\ IsTurn(req'[r]) => CallsUseEffective(req'[r])
              /\ ( /\ req'[r].kind \in {"turn_text", "turn", "clear"}
                   /\ CONVERSATION_ID \in DOMAIN req'[r].data
                   /\ Get(FieldsOf(req'[r]), CONVERSATION_ID) = Undefined ) =>
                    ActsOnDemo(r) ]_vars

\* a Text Turn that named no field was processed with the defaults and stored
\* its pair under demo; then a clear that named no conversation emptied demo
C18_Witness ==
    \E r \in Reqs, q \in Reqs :
        /\ req[r].kind = "turn_text" /\ req[r].pc \in {"awaitSynth", "done"}
        /\ CallsTo(req[r], "tutor") # {}
        /\ DOMAIN req[r].input.v.m = {USER_TEXT}
        /\ TheCall(req[r], "tutor").args.persona = Str(<<"Osaka izakaya owner">>)
        /\ TheCall(req[r], "tutor").args.targetLanguage = Str(<<"ja">>)
        /\ TheCall(req[r], "tutor").args.nativeLanguage = Str(<<"zh-TW">>)
        /\ req[q].kind = "clear" /\ req[q].status = 200
        /\ req[q].input.valid /\ req[q].input.v = Obj(EmptyMap)
        /\ Len(obs.turn[q].store0[DEMO]) = 2
        /\ Stored(DEMO) = <<>>

-----------------------------------------------------------------------------
(* Claims about the stored sequence *)

\* a clear of conversation k is answered 200 in this step
ClearedNow(k) ==
    \E r \in Reqs :
        /\ req[r].pc = "new" /\ req'[r].kind = "clear" /\ req'[r].status = 200
        /\ req'[r].data[CONVERSATION_ID].s = k

\* C19: between two clears of a conversation id its stored sequence only grows
\* at the end: every earlier stored sequence is a prefix of every later one,
\* so no stored entry is modified, reordered or removed except by a clear.
C19_HistoryOnlyGrows ==
    [][ \A k \in ConvIds :
          ClearedNow(k) \/ IsPrefix(StoreView[k], StoreView'[k]) ]_vars

\* in this step a turn stores, under a conversation that already has an
\* array, another array
ReplacesArray(k) ==
    \E r \in Reqs :
        /\ req[r].pc = "awaitTutor" /\ req'[r].pc = "awaitSynth"
        /\ req'[r].data[CONVERSATION_ID].s = k
        /\ k \in DOMAIN historyStore /\ historyStore[k] # req[r].hist

\* C19 without the steps in which a turn replaces the array of its conversation
GrowsUnlessReplaced ==
    [][ \A k \in ConvIds :
          ClearedNow(k) \/ ReplacesArray(k) \/ IsPrefix(StoreView[k], StoreView'[k]) ]_vars

-----------------------------------------------------------------------------
(* Claims about the priority of the extraction stages *)

\* text t begins with an opening brace, leading white space aside
BeginsWithBrace(t) ==
    \E i \in 1..Len(t) : t[i] = LB /\ \A j \in 1..(i - 1) : IsSpace(t[j])

\* the value a field v of a part offers directly: v when it is a structured
\* object, what v parses to when it is text that begins with a brace and parses
Offers(v, structured) ==
    IF IsObject(v) THEN IF structured THEN {v} ELSE {}
    ELSE IF IsString(v) /\ BeginsWithBrace(v.s) /\ JSONparse(v.s).ok THEN {JSONparse(v.s).v}
    ELSE {}

\* the values part p offers directly; none when p is no object
QualifyingValues(p) ==
    IF ~IsObject(p) THEN {}
    ELSE Offers(Get(p, TEXT), FALSE) \cup Offers(Get(p, <<"json">>), TRUE)
           \cup Offers(Get(p, <<"data">>), TRUE) \cup Offers(Get(p, <<"structuredData">>), TRUE)

Qualifying(parts) == {i \in 1..Len(parts) : QualifyingValues(parts[i]) # {}}

FirstQualifying(parts) ==
    CHOOSE i \in Qualifying(parts) : \A j \in Qualifying(parts) : i <= j

\* the text the second stage extracts from the parts
ExtractedFrom(parts) == extractFirstJSONObject(joinTexts(parts))

\* C20: the extraction follows the stated priority: if some part is already
\* a structured object, or is a text part that begins with a brace and parses
\* as JSON, the result comes from the first such part in part order; the
\* concatenate-and-extract stage is used only when no part qualified; the
\* field-level recovery is used only when parsing the extracted text fails.
C20_ExtractionPriority ==
    fpc = "returned" =>
        /\ Qualifying(arg) # {} =>
              /\ ~ret.threw /\ ret.stage = "part"
              /\ ret.value \in QualifyingValues(arg[FirstQualifying(arg)])
        /\ ret.stage \in {"extract", "recover"} => Qualifying(arg) = {}
        /\ ret.stage = "extract" =>
              /\ JSONparse(ExtractedFrom(arg)).ok
              /\ ret.value = JSONparse(ExtractedFrom(arg)).v
        /\ ret.stage = "recover" => ~JSONparse(ExtractedFrom(arg)).ok

\* two parts qualified with different values after one that did not, and the
\* result came from the first of the two
C20_Witness ==
    /\ fpc = "returned" /\ Len(arg) = 3
    /\ Qualifying(arg) = {2, 3}
    /\ QualifyingValues(arg[2]) \cap QualifyingValues(arg[3]) = {}
    /\ ret.stage = "part" /\ ret.value \in QualifyingValues(arg[2])

-----------------------------------------------------------------------------
(* C21: follow_up_question takes no part in the recovery decision *)

\* the answer of the input at hand with its follow_up_question member in form fq
WithFollowUp(fq) == [arg EXCEPT !.forms[4] = fq]

TutorOn(input) == geminiTutor(responseOf(input.shape, candidateText(input.forms)))

FollowUpRecoverableIn(input) ==
    pick(extractFirstJSONObject(candidateText(input.forms)), FOLLOW_UP_QUESTION) # <<>>

\* two results agree: both raise, or both return with the same primary fields
SameDecision(a, b) ==
    /\ a.threw <=> b.threw
    /\ (~a.threw /\ ~b.threw) =>
          \A i \in PrimaryIndex : a.value.m[FieldKeys[i]] = b.value.m[FieldKeys[i]]

\* C21: two candidate texts that both reach field-level recovery and differ only
\* in whether follow_up_question is recoverable make the Tutor Client return for
\* both or raise for both, with equal primary fields.
C21_FollowUpNeverDecides ==
    (fpc = "returned" /\ ret.stage = "recover") =>
        \A fq \in FollowUpForms :
            (/\ FollowUpRecoverableIn(WithFollowUp(fq)) # FollowUpRecoverableIn(arg)
             /\ TutorOn(WithFollowUp(fq)).stage = "recover")
            => SameDecision(ret, TutorOn(WithFollowUp(fq)))

\* What does hold: when no primary field is an unterminated string, the
\* follow_up_question member changes neither the decision nor the primary fields.
FollowUpNeverDecidesClosedPrimaries ==
    (/\ fpc = "returned" /\ ret.stage = "recover"
     /\ \A i \in PrimaryIndex : arg.forms[i].kind # "open") =>
        \A fq \in FollowUpForms :
            TutorOn(WithFollowUp(fq)).stage = "recover"
            => SameDecision(ret, TutorOn(WithFollowUp(fq)))

-----------------------------------------------------------------------------
(* The request body of geminiTutor, gemini.ts:15-25 and 94-109 *)

\* gemini.ts:15-25: the fixed system instruction
systemPrompt == <<"You are Language Mirror, an immersive language tutor.">>

Message(role, text) == [role |-> role, parts |-> <<[text |-> text]>>]

\* gemini.ts:102-105: the template literal of the final user turn
finalTurnText(params) ==
    Str(<<"TARGET language: ">> \o params.targetLanguage.s \o
        <<NL, "NATIVE language: ">> \o params.nativeLanguage.s \o
        <<NL, "Persona: ">> \o params.persona.s \o
        <<NL, "User said: ">> \o params.userText.s)

\* a message sequence that leaves the history out
contents_noHistory(params) ==
    <<Message("user", Str(systemPrompt))>> \o
    <<Message("user", finalTurnText(params))>>

\* gemini.ts:94-109
contents(params) ==
    <<Message("user", Str(systemPrompt))>> \o
    [i \in 1..Len(params.history) |->
        Message(params.history[i].role, params.history[i].text)] \o
    <<Message("user", finalTurnText(params))>>

-----------------------------------------------------------------------------
(* C22: the message sequence sent to the remote model *)

\* the parameters of the Tutor Client call just made by r
ParamsSent(r) == req'[r].calls[Len(req'[r].calls)].args

\* text carries the four values, each after its label, in the order target
\* language, native language, persona, utterance
CarriesTurn(text, tl, nl, persona, utterance) ==
    \E a, b, c, d \in 1..Len(text) :
        /\ a < b /\ b < c /\ c < d
        /\ text[a] = "TARGET language: " /\ SubSeq(text, a + 1, b - 2) = tl
        /\ text[b] = "NATIVE language: " /\ SubSeq(text, b + 1, c - 2) = nl
        /\ text[c] = "Persona: " /\ SubSeq(text, c + 1, d - 2) = persona
        /\ text[d] = "User said: " /\ SubSeq(text, d + 1, Len(text)) = utterance

\* C22: the message sequence of a Tutor Client call is the fixed system
\* instruction, then the history entries given (the window of what was stored
\* before this turn appended anything), in order and with their roles, then one
\* final user turn carrying target language, native language, persona and the
\* current utterance; its length is the history length plus 2, at most 8.
C22_MessageSequence ==
    [][ \A r \in Reqs :
          CallsTutor(r) =>
              /\ Len(contents(ParamsSent(r))) = Len(WindowSent(r)) + 2
              /\ Len(contents(ParamsSent(r))) <= 8
              /\ contents(ParamsSent(r))[1] = Message("user", Str(systemPrompt))
              /\ \A i \in 1..Len(WindowSent(r)) :
                    /\ contents(ParamsSent(r))[i + 1].role = WindowSent(r)[i].role
                    /\ contents(ParamsSent(r))[i + 1].parts = <<[text |-> WindowSent(r)[i].text]>>
              /\ IsTail(WindowSent(r), StoreView[ConvOf(r)'])
              /\ StoreView'[ConvOf(r)'] = StoreView[ConvOf(r)']
              /\ contents(ParamsSent(r))[Len(WindowSent(r)) + 2].role = "user"
              /\ Len(contents(ParamsSent(r))[Len(WindowSent(r)) + 2].parts) = 1
              /\ CarriesTurn(contents(ParamsSent(r))[Len(WindowSent(r)) + 2].parts[1].text.s,
                             Effective(FieldsOf(req'[r]), TARGET_LANGUAGE).s,
                             Effective(FieldsOf(req'[r]), NATIVE_LANGUAGE).s,
                             Effective(FieldsOf(req'[r]), PERSONA).s,
                             req'[r].user_text.s) ]_vars

\* a turn has sent eight messages: the instruction, six stored entries from
\* (user, two) on, and its own utterance
C22_Witness ==
    \E r \in Reqs :
        /\ req[r].pc = "awaitTutor"
        /\ Len(contents(TheCall(req[r], "tutor").args)) = 8
        /\ contents(TheCall(req[r], "tutor").args)[2] = Message("user", LongHistory[3].text)
        /\ contents(TheCall(req[r], "tutor").args)[7].role = "assistant"
        /\ Len(heap[req[r].hist]) = 8

-----------------------------------------------------------------------------
(* C23: an Audio Turn in which no speech is recognized *)

\* the Audio Turn r has heard the empty string
HeardNothing(rec) == rec.kind = "turn" /\ rec.user_text = Str(<<>>)

\* the last two entries stored for k
LastTwo(stored) == SubSeq(stored, Len(stored) - 1, Len(stored))

\* C23: an Audio Turn whose recognizer returns the empty string goes on like any
\* other: it ends early only when a remote call fails or the Tutor Client
\* returns no record; the Tutor Client is called with the empty utterance, then
\* a user entry with empty text and the assistant entry are appended and the
\* synthesizer is called, and the answer is a 200 whose user_text is empty.
C23_EmptyTranscriptProceeds ==
    [][ \A r \in Reqs :
          (HeardNothing(req'[r]) /\ req'[r] # req[r]) =>
              /\ req[r].pc = "awaitStt" => req'[r].pc \in {"awaitTranslate", "awaitTutor"}
              /\ (req'[r].pc = "done" /\ req'[r].status # 200) =>
                    AnyRemoteCallFails(r) \/ ~IsObject(req'[r].tutor)
              /\ CallsTutor(r) => ParamsSent(r).userText = Str(<<>>)
              /\ (req[r].pc = "awaitTutor" /\ IsObject(req'[r].tutor)) =>
                    /\ req'[r].pc = "awaitSynth"
                    /\ Len(StoreView'[ConvOf(r)]) = Len(heap[req[r].hist]) + 2
                    /\ LastTwo(StoreView'[ConvOf(r)]) =
                          << Entry("user", Str(<<>>)),
                             Entry("assistant", req'[r].tutor.m[ASSISTANT_REPLY]) >>
                    /\ req'[r].calls[Len(req'[r].calls)] =
                          Call("synth", [text |-> req'[r].tutor.m[ASSISTANT_REPLY]])
              /\ (req[r].pc = "awaitSynth" /\ ~AnyRemoteCallFails(r)) =>
                    /\ req'[r].pc = "done" /\ req'[r].status = 200
                    /\ USER_TEXT \in DOMAIN req'[r].body.m
                    /\ req'[r].body.m[USER_TEXT] = Str(<<>>) ]_vars

\* an Audio Turn that heard nothing has answered 200 after calling the Tutor
\* Client and the synthesizer, and its two entries are stored
C23_Witness ==
    \E r \in Reqs :
        /\ HeardNothing(req[r]) /\ req[r].pc = "done" /\ req[r].status = 200
        /\ req[r].body.m[USER_TEXT] = Str(<<>>)
        /\ CallsTo(req[r], "tutor") # {} /\ CallsTo(req[r], "synth") # {}
        /\ Stored(ConvOf(r)) # <<>>
        /\ Stored(ConvOf(r))[Len(Stored(ConvOf(r))) - 1] = Entry("user", Str(<<>>))

-----------------------------------------------------------------------------
(* C24: what changes the history store *)

\* request r takes its append step: the Tutor Client has returned to it
AppendStep(r) == req[r].pc = "awaitTutor" /\ req'[r].tutor # Undefined

\* request r, a clear, is answered 200
ClearStep(r) == req[r].pc = "new" /\ req'[r].kind = "clear" /\ req'[r].status = 200

\* request r takes a step that is neither
OtherStep(r) == req'[r] # req[r] /\ ~AppendStep(r) /\ ~ClearStep(r)

\* C24: the store changes only in a turn's append step and in /clear: a GET
\* /health, a request answered 400 and every step of a turn that ends before
\* its append step leave the whole store unchanged; a turn or a clear on
\* conversation A never changes what is stored for another conversation B.
C24_StoreChangesOnlyByAppendAndClear ==
    [][ /\ StoreView' # StoreView =>
              \E r \in Reqs : AppendStep(r) \/ ClearStep(r)
        /\ \A r \in Reqs :
              /\ OtherStep(r) =>
                    /\ StoreView' = StoreView
                    /\ UNCHANGED <<historyStore, heap>>
              /\ (req'[r] # req[r] /\ (req'[r].kind = "health" \/ req'[r].status = 400)) =>
                    OtherStep(r)
              /\ (Completes(r) /\ IsTurn(req'[r]) /\ req'[r].tutor = Undefined) =>
                    OtherStep(r)
              /\ (AppendStep(r) \/ ClearStep(r)) =>
                    \A k \in ConvIds \ {ConvOf(r)'} : StoreView'[k] = StoreView[k] ]_vars

\* conversation t1 holds a pair, and a turn on demo has just appended its own
\* pair while t1 kept its entries
C24_Witness ==
    \E r \in Reqs, q \in Reqs :
        /\ req[r].pc = "awaitSynth" /\ ConvOf(r) = DEMO
        /\ Len(Stored(DEMO)) = 2
        /\ req[q].pc = "done" /\ req[q].status = 200 /\ IsTurn(req[q]) /\ ConvOf(q) = T1
        /\ Len(Stored(T1)) = 2

-----------------------------------------------------------------------------
(* C25: the shape of a stored sequence *)

\* user, assistant, user, assistant, ...
Alternates(entries) ==
    \A i \in 1..Len(entries) :
        entries[i].role = (IF i % 2 = 1 THEN "user" ELSE "assistant")

\* C25: in every reachable state the sequence stored for every conversation id
\* has even length and its roles alternate user, assistant, ..., starting with
\* user.
C25_StoredPairsAlternate ==
    \A k \in ConvIds : Len(Stored(k)) % 2 = 0 /\ Alternates(Stored(k))

\* What does hold: the roles alternate, and the length is even, as long as the
\* Tutor Client has returned null to no turn on the conversation.
StoredPairsUnlessNullReturn ==
    \A k \in ConvIds :
        (\A r \in Reqs : ~(IsTurn(req[r]) /\ req[r].tutor = Null /\ ConvOf(r) = k)) =>
            Len(Stored(k)) % 2 = 0 /\ Alternates(Stored(k))

-----------------------------------------------------------------------------
(* C26: a clear while a turn awaits the Tutor Client *)

\* the clear q of conversation k completed while the Text Turn r on k, which
\* awaits the Tutor Client from its arrival on, was still awaiting it
ClearedWhileAwaiting(r, q, k) ==
    /\ req[r].kind = "turn_text" /\ req[r].pc = "awaitTutor" /\ ConvOf(r) = k
    /\ req[q].kind = "clear" /\ req[q].status = 200 /\ ConvOf(q) = k
    /\ r < q

\* C26: when a clear of conversation k has completed while a turn on k was
\* awaiting the Tutor Client, then in every later step of that turn the
\* sequence stored for k holds no entry that was stored when the clear
\* arrived: with no third request on k, at most the turn's own 2 entries.
C26_ClearIsNotUndone ==
    [][ \A r \in Reqs, q \in Reqs, k \in ConvIds :
          (ClearedWhileAwaiting(r, q, k) /\ req'[r] # req[r] /\ OnlyTheTwo(r, q, k)) =>
              /\ Len(StoreView'[k]) <= 2
              /\ \A i \in 1..Len(StoreView'[k]) :
                    \A j \in 1..Len(obs.turn[q].store0[k]) :
                        StoreView'[k][i] # obs.turn[q].store0[k][j] ]_vars

\* What does hold: a turn that arrives after the clear has completed stores at
\* most its own 2 entries.
ClearHoldsForLaterTurns ==
    [][ \A r \in Reqs, q \in Reqs, k \in ConvIds :
          (/\ req[q].kind = "clear" /\ req[q].status = 200 /\ ConvOf(q) = k
           /\ q < r /\ IsTurn(req[r]) /\ InFlight(r) /\ ConvOf(r) = k
           /\ req'[r] # req[r] /\ OnlyTheTwo(r, q, k)) =>
              Len(StoreView'[k]) <= 2 ]_vars

-----------------------------------------------------------------------------
(* C27: the window is a snapshot, and a turn's two entries are adjacent *)

\* the window r has sent to the Tutor Client
WindowOf(rec) == TheCall(rec, "tutor").args.history

\* C27: the window a turn sends is the tail of what is stored at the moment
\* of the read and never changes afterwards, whatever is appended to the same
\* array while the call is in flight; a turn appends its user entry and its
\* assistant entry together at the end of the array it read, and no array is
\* ever changed except by appending at its end, so no other entry comes
\* between the two.
C27_SnapshotAndAdjacent ==
    [][ /\ \A r \in Reqs :
              /\ CallsTutor(r) =>
                    WindowSent(r) = sliceLast(StoreView[ConvOf(r)'], HistoryWindow)
              /\ CallsTo(req[r], "tutor") # {} =>
                    /\ CallsTo(req'[r], "tutor") = CallsTo(req[r], "tutor")
                    /\ WindowOf(req'[r]) = WindowOf(req[r])
              /\ (AppendStep(r) /\ IsObject(req'[r].tutor)) =>
                    /\ heap'[req[r].hist] = heap[req[r].hist] \o PairOf(r)
                    /\ StoreView'[ConvOf(r)] = heap'[req[r].hist]
        /\ \A h \in DOMAIN heap : IsPrefix(heap[h], heap'[h]) ]_vars

\* two turns read the six entries of t1; the other one appended its pair while
\* this one awaited the Tutor Client; this one sent the six entries it had
\* read, and its pair now follows the other's, both adjacent
C27_Witness ==
    \E r \in Reqs, q \in Reqs :
        /\ q # r
        /\ req[r].pc = "awaitSynth" /\ req[q].pc \in {"awaitSynth", "done"}
        /\ IsObject(req[q].tutor)
        /\ WindowOf(req[r]) = LongHistory
        /\ Stored(T1) = LongHistory
              \o << Entry("user", req[q].user_text),
                    Entry("assistant", req[q].tutor.m[ASSISTANT_REPLY]) >>
              \o << Entry("user", req[r].user_text),
                    Entry("assistant", req[r].tutor.m[ASSISTANT_REPLY]) >>

-----------------------------------------------------------------------------
(* C28: every request is answered, once *)

\* the stages of a handler, in the order of the code
Rank(pc) ==
    CASE pc = "new" -> 0
      [] pc = "awaitNorm" -> 1
      [] pc = "awaitStt" -> 2
      [] pc = "awaitTranslate" -> 3
      [] pc = "awaitTutor" -> 4
      [] pc = "awaitSynth" -> 5
      [] pc = "done" -> 6

Answered(rec) == rec.pc = "done" /\ rec.status \in {200, 400, 500}

\* C28: when every remote call eventually returns or fails, every request that
\* has arrived is eventually answered 200, 400 or 500; an answered request
\* takes no further step, so it is answered once; every step of a request
\* moves it to a later stage, so no stage is entered again; and a request that
\* awaits a remote call can go on whatever the other requests do.
C28_EveryRequestAnswered ==
    /\ \A r \in Reqs : (req[r].pc # "new") ~> Answered(req[r])
    /\ [][ \A r \in Reqs :
             /\ req[r].pc = "done" => req'[r] = req[r]
             /\ req'[r] # req[r] => Rank(req'[r].pc) > Rank(req[r].pc)
             /\ req'[r].pc = "done" => Answered(req'[r]) ]_vars
    /\ [](\A r \in Reqs : InFlight(r) => ENABLED Returns(r))

\* an Audio Turn and a Text Turn that were in flight together on the same
\* conversation have both been answered, the first with 200, the second with
\* 500 after its synthesizer call
C28_Witness ==
    /\ req[1].kind = "turn" /\ req[2].kind = "turn_text"
    /\ Answered(req[1]) /\ Answered(req[2])
    /\ req[1].status = 200 /\ req[2].status = 500
    /\ CallsTo(req[2], "synth") # {}
    /\ ConvOf(1) = ConvOf(2)
    /\ ~obs.turn[1].alone

-----------------------------------------------------------------------------
(* C29: what extractFirstJSONObject returns *)

\* the position of the first opening brace of t, 0 when there is none
FirstBrace(t) ==
    IF \A i \in 1..Len(t) : t[i] # LB THEN 0
    ELSE CHOOSE i \in 1..Len(t) : t[i] = LB /\ \A j \in 1..(i - 1) : t[j] # LB

\* the positions of u, a text that opens with a brace, at which the brace
\* depth counted outside quoted strings is back to 0
Closings(u) == {i \in 1..Len(u) : lexAfter(u, i).d = 0}

\* the length of the part of u returned: up to the first closing, or all of u
ReturnedLength(u, closings) ==
    IF closings = {} THEN Len(u)
    ELSE CHOOSE i \in closings : \A j \in closings : i <= j

\* out is what the claim describes for the trimmed, fence-stripped text t whose
\* first opening brace is at position s
IsExtractOf(out, t, s) ==
    IF s = 0 THEN out = t
    ELSE /\ out = SubSeq(t, s, s - 1 + ReturnedLength(SubSeq(t, s, Len(t)),
                                                     Closings(SubSeq(t, s, Len(t)))))
         /\ out # <<>> /\ out[1] = LB

-----------------------------------------------------------------------------
(* C30: POST /clear is idempotent and total *)

\* a POST /clear arrives as request r with a JSON object, or with a body that
\* is absent or not JSON
ClearArrives(r) ==
    /\ req[r].pc = "new" /\ req'[r].kind = "clear"
    /\ ~req'[r].input.valid \/ IsObject(req'[r].input.v)

\* the conversation a clear addresses: the one its body names, else demo
Addressed(input) ==
    IF input.valid /\ Get(input.v, CONVERSATION_ID) # Undefined
    THEN Get(input.v, CONVERSATION_ID).s
    ELSE DEMO

\* C30: every POST /clear with a JSON object, or with a body that is absent or
\* not JSON, is answered {ok: true}; it addresses the conversation it names,
\* demo when it names none or has no JSON body; afterwards nothing is stored
\* for that conversation and the others are as before; when nothing was stored
\* for it (never used, or already cleared) the store is left exactly as it was.
C30_ClearIdempotentAndTotal ==
    [][ \A r \in Reqs :
          ClearArrives(r) =>
              /\ req'[r].pc = "done" /\ req'[r].status = 200
              /\ req'[r].body = Obj(ObjectOf(<<OK>>, <<[t |-> "boolean", b |-> TRUE]>>))
              /\ ConvOf(r)' = Addressed(req'[r].input)
              /\ Addressed(req'[r].input) \notin DOMAIN historyStore'
              /\ StoreView'[Addressed(req'[r].input)] = <<>>
              /\ \A k \in ConvIds \ {Addressed(req'[r].input)} :
                    /\ StoreView'[k] = StoreView[k]
                    /\ k \in DOMAIN historyStore' <=> k \in DOMAIN historyStore
              /\ Addressed(req'[r].input) \notin DOMAIN historyStore =>
                    UNCHANGED <<historyStore, heap>> ]_vars

\* conversation t1, which held six entries, has been cleared twice; both
\* clears were answered ok and nothing is stored for t1
C30_Witness ==
    /\ req[1].kind = "clear" /\ req[1].status = 200
    /\ req[2].kind = "clear" /\ req[2].status = 200
    /\ ConvOf(1) = T1 /\ ConvOf(2) = T1
    /\ obs.turn[1].store0[T1] = LongHistory
    /\ obs.turn[2].store0[T1] = <<>>
    /\ T1 \notin DOMAIN historyStore

=============================================================================
